---- MODULE Spec2Model ----
(***************************************************************************)
(* A model of avatar-bot: the frame sources (SurfaceIter, AVFrameIter),    *)
(* the MP4 encode stage (encode_mp4, encode_write_frame) of src/video.rs,  *)
(* the command layer (set_avatar, handle_update) of src/command.rs and the *)
(* still-image path (image_to_png and its helpers) of src/image.rs.        *)
(***************************************************************************)
EXTENDS Integers, Sequences, FiniteSets, TLC

VARIABLES
    \* ---- video.rs: one conversion call (tgs_to_mp4 / video_to_mp4) ----
    input,       \* the media handed to tgs_to_mp4 / video_to_mp4
    pc,          \* position inside tgs_to_mp4 / video_to_mp4 / encode_mp4
    src,         \* the frame source: a SurfaceIter or an AVFrameIter
    ret,         \* what the last next_frame step returned
    enc,         \* the encoder side of encode_mp4 (encode_context, sws_context)
    outbuf,      \* bytes the muxer wrote into the shared output buffer
    result,      \* what the call returned to its caller
    failure,     \* the step that failed, "none" while none did
    events,      \* the order of the steps taken so far
    calls,       \* number of next_frame calls made by the stand-alone driver
    \* ---- command.rs: requests served by handle_update ----
    req,         \* per request: position, options, media, result
    LAST_UPDATE, \* per served chat: the mutex and the Instant it guards
    now,         \* the clock (seconds)
    effects,     \* what reached the platform: uploads, replies, edits
    \* ---- image.rs: one image_to_png call, and the background helpers ----
    data,        \* the caller's buffer: the file, then the encoded PNG
    rgba,        \* the RgbaImage being worked on
    bgra,        \* a frame_buffer of the video path (frame_set_color)
    opt,         \* the Opt of the call: color, align, show_detect
    detect,      \* what detect_animeface returned, None while not called
    select,      \* the selected face, then the rectangle face_image_rect gave
    ipc,         \* position inside image_to_png
    iret,        \* what image_to_png returned
    words,       \* the option string after /set_avatar, as its words
    threads      \* per thread: its INIT Once, its CLASSIFIER, its calls

vars == <<input, pc, src, ret, enc, outbuf, result, failure, events, calls,
          req, LAST_UPDATE, now, effects,
          data, rgba, bgra, opt, detect, select, ipc, iret, words, threads>>

videoVars == <<input, pc, src, ret, enc, outbuf, result, failure, events, calls>>
cmdVars == <<req, LAST_UPDATE, now, effects>>
imgVars == <<data, rgba, bgra, opt, detect, select, ipc, iret, words, threads>>

(***************************************************************************)
(* Bounds of the model.                                                    *)
(***************************************************************************)
MaxFrames == 2      \* frames the decoder hands out in one call
MaxTotal == 3       \* largest totalframe of an animation
MaxCalls == 5       \* next_frame calls of the stand-alone SurfaceIter driver

None == [tag |-> "none"]
NoRet == [tag |-> "unset"]
Some(x) == [tag |-> "some", val |-> x]

(***************************************************************************)
(* Timestamps.  An i64 v is held as hi * 2^32 + lo with lo in the i32      *)
(* range, so that `v as i32` is exactly lo.                                *)
(***************************************************************************)
P(h, l) == [hi |-> h, lo |-> l]

MinI32 == (-2147483647) - 1

AV_NOPTS_VALUE == P(MinI32, 0)

\* frame.pts as i32
AsI32(p) == p.lo

\* pts * time_base > 10 seconds, in exact arithmetic.  With hi >= 1 the
\* value is at least 2^31, which exceeds 10 * den for every den of TimeBases.
PresentationBeyond(p, tb) ==
    IF p.hi > 0 THEN TRUE
    ELSE IF p.hi < 0 THEN FALSE
    ELSE p.lo > (10 * tb.den) \div tb.num

\* Time bases of the input stream (stream.time_base).
TimeBases == { [num |-> 1, den |-> 90000], [num |-> 1001, den |-> 30000] }

\* Timestamps the decoder may report under time base tb: around 0, around
\* the 10 second mark T, and beyond the i32 range.
PtsValues(tb) ==
    LET T == (10 * tb.den) \div tb.num
    IN  { P(0, -1), P(0, 0), P(0, T), P(0, T + 1), P(1, 0) }

Dims == { <<640, 480>>, <<480, 640>>, <<641, 481>>, <<480, 480>>,
          <<481, 481>>, <<320, 320>> }

DecodedFormats == { "YUV420P", "YUVA420P" }

AnimSizes == { <<512, 512>>, <<100, 50>> }

Min(a, b) == IF a < b THEN a ELSE b

\* Rust's integer division truncates toward zero.
RustDiv(a, b) == IF a >= 0 THEN a \div b ELSE -((-a) \div b)

\* Rust's % takes the sign of the dividend.
RustRem(a, b) == a - b * RustDiv(a, b)

(***************************************************************************)
(* Frames.  id is the ordinal of the decoded or rendered picture the frame *)
(* carries (0: none yet); crop_* are the margins last set on the frame.    *)
(* An AVFrameIter keeps the decoder's last frame twice: received as the    *)
(* decoder gave it, frame as the loop body has changed it since.           *)
(***************************************************************************)
Frame(id, pts, w, h, fmt) ==
    [id |-> id, pts |-> pts, width |-> w, height |-> h, format |-> fmt,
     crop_left |-> 0, crop_right |-> 0, crop_top |-> 0, crop_bottom |-> 0]

Ok(s, r) == [self |-> s, ret |-> r]

Yield == [tag |-> "some"]
Exhausted == [tag |-> "none"]
Again == [tag |-> "again"]
Err(msg) == [tag |-> "err", msg |-> msg]

(***************************************************************************)
(* SurfaceIter: the rendered-animation source.                             *)
(***************************************************************************)
decode_lottie(size, totalframe) ==
    [kind |-> "tgs",
     frame_buffer |-> Frame(0, AV_NOPTS_VALUE, size[1], size[2], "BGRA"),
     frame_index |-> 0,
     totalframe |-> totalframe,
     width |-> size[1],
     height |-> size[2]]

\* next_frame with > for >= in the test for exhaustion.
SurfaceIter_next_frame_gt(self, fail) ==
    IF self.frame_index > self.totalframe THEN Ok(self, Exhausted)
    ELSE IF fail = "make_writable" THEN Ok(self, Err("make_writable"))
    ELSE IF fail = "fill_arrays" THEN Ok(self, Err("fill_arrays"))
    ELSE Ok([self EXCEPT
                !.frame_buffer = Frame(self.frame_index + 1,
                                       P(0, self.frame_index),
                                       self.width, self.height, "BGRA"),
                !.frame_index = self.frame_index + 1],
            Yield)

\* fail names the library call that fails in this call ("none": no call fails).
SurfaceIter_next_frame(self, fail) ==
    IF self.frame_index >= self.totalframe THEN Ok(self, Exhausted)
    ELSE IF fail = "make_writable" THEN Ok(self, Err("make_writable"))
    ELSE IF fail = "fill_arrays" THEN Ok(self, Err("fill_arrays"))
    ELSE Ok([self EXCEPT
                !.frame_buffer = Frame(self.frame_index + 1,
                                       P(0, self.frame_index),
                                       self.width, self.height, "BGRA"),
                !.frame_index = self.frame_index + 1],
            Yield)

SurfaceFails == { "none", "make_writable", "fill_arrays" }

\* What any caller of SurfaceIter::next_frame sees, call after call, also
\* after the source is exhausted.
SurfaceCall ==
    /\ pc = "iter"
    /\ calls < MaxCalls
    /\ \E f \in SurfaceFails :
         LET r == SurfaceIter_next_frame(src, f)
         IN  /\ src' = r.self
             /\ ret' = r.ret
             /\ events' =
                  IF r.ret.tag = "some"
                  THEN Append(events, [op |-> "pull",
                                       id |-> r.self.frame_buffer.id])
                  ELSE events
    /\ calls' = calls + 1
    /\ UNCHANGED <<input, pc, enc, outbuf, result, failure>>
    /\ UNCHANGED cmdVars
    /\ UNCHANGED imgVars

(***************************************************************************)
(* AVFrameIter: the decoded-video source.                                  *)
(***************************************************************************)
decode_video(tb) ==
    [kind |-> "video",
     frame_buffer |-> Frame(0, P(0, -1), 0, 0, "NONE"),
     time_base |-> tb,
     sws_context |-> None,
     crop_frame |-> None,
     received |-> Frame(0, P(0, -1), 0, 0, "NONE"),
     frame |-> Frame(0, P(0, -1), 0, 0, "NONE"),
     decoded |-> 0]

\* (frame.pts as i32) * time_base.num > 10 * time_base.den
TimeCheck(pts, tb) == AsI32(pts) * tb.num > 10 * tb.den

NeedsScaler(frame) ==
    \/ frame.width # frame.height
    \/ frame.format = "YUVA420P"
    \/ RustRem(Min(frame.width, frame.height), 2) # 0

DstFormat(frame) == IF frame.format = "YUVA420P" THEN "BGRA" ELSE "YUV420P"

\* CropWindow with the whole difference as the offset.
CropWindowOffCenter(frame) ==
    LET diff == frame.width - frame.height
    IN  IF diff > 0
        THEN [x |-> diff, y |-> 0, length |-> frame.height]
        ELSE [x |-> 0, y |-> -diff, length |-> frame.width]

\* (x, y, length) of the centered square
CropWindow(frame) ==
    LET diff == frame.width - frame.height
    IN  IF diff > 0
        THEN [x |-> RustDiv(diff, 2), y |-> 0, length |-> frame.height]
        ELSE [x |-> 0, y |-> RustDiv(-diff, 2), length |-> frame.width]

DstLength(length) == length + RustRem(length, 2)

\* libavutil's av_frame_apply_cropping with AV_FRAME_CROP_UNALIGNED: the
\* margins are size_t, so a negative one is out of range.
av_frame_apply_cropping(f) ==
    IF \/ f.crop_left < 0 \/ f.crop_right < 0
       \/ f.crop_top < 0 \/ f.crop_bottom < 0
       \/ f.crop_left + f.crop_right >= f.width
       \/ f.crop_top + f.crop_bottom >= f.height
    THEN [rc |-> -34, frame |-> f]
    ELSE [rc |-> 0,
          frame |-> [f EXCEPT !.width = f.width - f.crop_left - f.crop_right,
                              !.height = f.height - f.crop_top - f.crop_bottom]]

\* The crop_frame closure, with the (x, y, length) it captured.
crop_frame(c, frame) ==
    IF frame.width = frame.height THEN [rc |-> 0, frame |-> frame]
    ELSE av_frame_apply_cropping(
            [frame EXCEPT !.crop_left = c.x,
                          !.crop_right = frame.width - c.x - c.length,
                          !.crop_top = c.y,
                          !.crop_bottom = frame.height - c.y - c.length])

\* The scaler is created on the first frame that needs one.
CreateScaler(self, frame) ==
    LET c == CropWindow(frame)
        dst == DstLength(c.length)
    IN  [self EXCEPT
            !.sws_context = Some([src_length |-> c.length,
                                  src_format |-> frame.format,
                                  dst_length |-> dst,
                                  dst_format |-> DstFormat(frame)]),
            !.crop_frame = IF frame.width # frame.height THEN Some(c)
                           ELSE self.crop_frame,
            !.frame_buffer = [self.frame_buffer EXCEPT
                                 !.format = DstFormat(frame),
                                 !.width = dst,
                                 !.height = dst]]

\* The tail of the loop body: pass the frame through the scaler when there
\* is one, else hand the decoded frame on as it is.
ScaleOrPass(self, frame, fail) ==
    IF self.sws_context.tag = "some"
    THEN LET cr == IF self.crop_frame.tag = "some"
                   THEN crop_frame(self.crop_frame.val, frame)
                   ELSE [rc |-> 0, frame |-> frame]
             s1 == [self EXCEPT !.frame = cr.frame]
         IN  IF self.crop_frame.tag = "some"
                /\ (cr.rc # 0 \/ cr.frame.width # cr.frame.height)
             THEN Ok(s1, Err("Failed to crop frame"))
             ELSE IF fail = "make_writable" THEN Ok(s1, Err("make_writable"))
             ELSE IF fail = "scale_frame" THEN Ok(s1, Err("scale_frame"))
             ELSE Ok([s1 EXCEPT !.frame_buffer.pts = frame.pts,
                                !.frame_buffer.id = frame.id],
                     Yield)
    ELSE Ok([self EXCEPT !.frame_buffer = frame, !.frame = frame], Yield)

\* A loop that never passes a frame over for its pts.
same_pts_never(self, frame) == FALSE

\* if frame.pts == self.frame_buffer.pts { continue; }
same_pts(self, frame) == frame.pts = self.frame_buffer.pts

\* One pass of the loop of next_frame.  out is what the demuxer and the
\* decoder answer in this pass, fail the library call that fails in it.
AVFrameIter_next_frame(self, out, fail) ==
    IF out.tag = "read_err" THEN Ok(self, Err("read_packet"))
    ELSE IF out.tag = "send_err" THEN Ok(self, Err("send_packet"))
    ELSE IF out.tag = "recv_err" THEN Ok(self, Err("receive_frame"))
    ELSE IF out.tag = "drain" THEN Ok(self, Again)
    ELSE IF out.tag = "flushed" THEN Ok(self, Exhausted)
    ELSE
      LET frame == out.val
          s0 == [self EXCEPT !.received = frame, !.frame = frame,
                             !.decoded = self.decoded + 1]
      IN  IF TimeCheck(frame.pts, self.time_base) THEN Ok(s0, Exhausted)
          ELSE IF same_pts(self, frame) THEN Ok(s0, Again)
          ELSE IF self.sws_context.tag = "none" /\ NeedsScaler(frame)
          THEN IF fail = "get_context"
               THEN Ok(s0, Err("Failed to get sws_context"))
               ELSE IF fail = "alloc_buffer"
               THEN Ok(CreateScaler(s0, frame), Err("alloc_buffer"))
               ELSE ScaleOrPass(CreateScaler(s0, frame), frame, fail)
          ELSE ScaleOrPass(s0, frame, fail)

VideoFails == { "none", "get_context", "alloc_buffer", "make_writable",
                "scale_frame" }

\* What the demuxer and the decoder can answer in one pass.
DecoderAnswers(self) ==
    { [tag |-> t] : t \in { "read_err", "send_err", "recv_err", "drain",
                            "flushed" } }
    \cup
    IF self.decoded >= MaxFrames THEN {}
    ELSE { [tag |-> "frame",
            val |-> Frame(self.decoded + 1, p, d[1], d[2], f)] :
           p \in PtsValues(self.time_base), d \in Dims, f \in DecodedFormats }

(***************************************************************************)
(* tgs_to_mp4 / video_to_mp4 / encode_mp4, one step per action.            *)
(***************************************************************************)
Inputs ==
    { [kind |-> "tgs", size |-> z, totalframe |-> n] :
        z \in AnimSizes, n \in 0..MaxTotal }
    \cup { [kind |-> "video", time_base |-> tb] : tb \in TimeBases }

Event(op, id) == [op |-> op, id |-> id]

\* A failing step ends the call: `?` returns the error and drops the
\* partly written buffer with everything else the call owned.
ErrResult(msg, buf) == [kind |-> "err", msg |-> msg, buf |-> <<>>]

OkResult(buf) == [kind |-> "ok", msg |-> "", buf |-> buf]

NoResult == [kind |-> "none", msg |-> "", buf |-> <<>>]

Fail(msg) ==
    /\ pc' = "done"
    /\ failure' = msg
    /\ result' = ErrResult(msg, outbuf)

\* Every result one next_frame step of the source can have.
SourceResults(s) ==
    IF s.kind = "tgs"
    THEN { SurfaceIter_next_frame(s, f) : f \in SurfaceFails }
    ELSE { AVFrameIter_next_frame(s, o, f) :
             o \in DecoderAnswers(s), f \in VideoFails }

OpenFails(kind) ==
    IF kind = "tgs"
    THEN { "none", "GzDecoder", "Invalid lottie data", "alloc_buffer" }
    ELSE { "none", "from_io_context", "Failed to find the best stream",
           "apply_codecpar", "open" }

\* tgs_to_mp4: read_animation, decode_lottie; video_to_mp4:
\* input_format_context, decode_video.
Open ==
    /\ pc = "entry"
    /\ \E f \in OpenFails(input.kind) :
         IF f # "none"
         THEN Fail(f) /\ UNCHANGED <<src, events>>
         ELSE /\ src' = IF input.kind = "tgs"
                        THEN decode_lottie(input.size, input.totalframe)
                        ELSE decode_video(input.time_base)
              /\ pc' = "first"
              /\ events' = Append(events, Event("open", 0))
              /\ UNCHANGED <<failure, result>>
    /\ UNCHANGED <<input, ret, enc, outbuf, calls>>
    /\ UNCHANGED cmdVars
    /\ UNCHANGED imgVars

\* let first_frame = src.next_frame()?.ok_or("Failed to get first frame")?
PullFirst ==
    /\ pc = "first"
    /\ \E r \in SourceResults(src) :
         /\ src' = r.self
         /\ ret' = r.ret
         /\ CASE r.ret.tag = "some" ->
                   /\ pc' = "setup"
                   /\ events' = Append(events,
                                       Event("pull", r.self.frame_buffer.id))
                   /\ UNCHANGED <<failure, result>>
              [] r.ret.tag = "none" ->
                   Fail("Failed to get first frame") /\ UNCHANGED events
              [] r.ret.tag = "err" -> Fail(r.ret.msg) /\ UNCHANGED events
              [] r.ret.tag = "again" ->
                   UNCHANGED <<pc, events, failure, result>>
    /\ UNCHANGED <<input, enc, outbuf, calls>>
    /\ UNCHANGED cmdVars
    /\ UNCHANGED imgVars

SetupFails ==
    { "none", "output_format_context", "Failed to find encoder codec",
      "Failed to set preset", "open", "alloc_buffer" }

\* The encoder as encode_mp4 sets it up from the first frame.  refs counts
\* the holders of the shared output buffer: the local `buffer` and the
\* muxer's write and seek callbacks.
NewEncoder(first_frame) ==
    [width |-> first_frame.width,
     height |-> first_frame.height,
     pix_fmt |-> "YUV420P",
     sws_src_format |-> "NONE",
     pending |-> 0,
     flushing |-> FALSE,
     last_write |-> 0,
     refs |-> 3]

\* output_format_context(), find_encoder_by_name, encode_context.open,
\* dst_frame.alloc_buffer, new_stream
Setup ==
    /\ pc = "setup"
    /\ \E f \in SetupFails :
         IF f # "none"
         THEN Fail(f) /\ UNCHANGED <<enc, events>>
         ELSE /\ enc' = NewEncoder(src.frame_buffer)
              /\ pc' = "header"
              /\ events' = Append(events, Event("setup", 0))
              /\ UNCHANGED <<failure, result>>
    /\ UNCHANGED <<input, src, ret, outbuf, calls>>
    /\ UNCHANGED cmdVars
    /\ UNCHANGED imgVars

\* write_header, then the encode stage's SwsContext::get_context
Header ==
    /\ pc = "header"
    /\ \E f \in { "none", "write_header", "Failed to get sws_context" } :
         /\ outbuf' = IF f = "write_header" THEN outbuf
                      ELSE Append(outbuf, "header")
         /\ events' = IF f = "write_header" THEN events
                      ELSE Append(events, Event("header", 0))
         /\ IF f # "none"
            THEN /\ pc' = "done"
                 /\ failure' = f
                 /\ result' = ErrResult(f, outbuf')
                 /\ UNCHANGED enc
            ELSE /\ enc' = [enc EXCEPT
                              !.sws_src_format = src.frame_buffer.format]
                 /\ pc' = "encode"
                 /\ UNCHANGED <<failure, result>>
    /\ UNCHANGED <<input, src, ret, calls>>
    /\ UNCHANGED cmdVars
    /\ UNCHANGED imgVars

\* encode_frame: convert unless the frame is already in the encoder's
\* format, then encode_write_frame's send_frame.
Encode ==
    /\ pc = "encode"
    /\ \E f \in { "none", "scale_frame", "send_frame" } :
         IF f = "scale_frame"
         THEN /\ src.frame_buffer.format # enc.pix_fmt
              /\ Fail(f)
              /\ UNCHANGED <<enc, events>>
         ELSE /\ events' = Append(events,
                                  Event("send", src.frame_buffer.id))
              /\ IF f = "send_frame"
                 THEN Fail(f) /\ UNCHANGED enc
                 ELSE /\ enc' = [enc EXCEPT !.pending = enc.pending + 1]
                      /\ pc' = "drain"
                      /\ UNCHANGED <<failure, result>>
    /\ UNCHANGED <<input, src, ret, outbuf, calls>>
    /\ UNCHANGED cmdVars
    /\ UNCHANGED imgVars

\* What receive_packet and interleaved_write_frame can answer in one pass
\* of encode_write_frame's loop.
DrainAnswers ==
    (IF enc.pending > 0 THEN { "written", "einval", "write_err" } ELSE {})
    \cup (IF enc.flushing /\ enc.pending = 0 THEN { "flushed" } ELSE {})
    \cup (IF ~enc.flushing THEN { "drain" } ELSE {})
    \cup { "recv_err" }

\* The code interleaved_write_frame returns: 0, AVERROR(EINVAL) = -22, or
\* another error, here AVERROR(EIO) = -5.
WriteCode(a) ==
    CASE a = "written" -> 0
      [] a = "einval" -> -22
      [] a = "write_err" -> -5

\* A loop in which every failed write ends the call.
WriteGoesOnStrict(a) == a = "written"

\* interleaved_write_frame's result: Ok and the tolerated -22 go on, any
\* other error ends the call.
WriteGoesOn(a) == a \in { "written", "einval" }

\* write_trailer with its result ignored.
TrailerIgnoresError(f) == TRUE

\* After the flush was drained: write_trailer()?
TrailerGoesOn(f) == f = "none"

\* One pass of the loop of encode_write_frame.
Drain ==
    /\ pc = "drain"
    /\ \E a \in DrainAnswers :
         CASE a \in { "written", "einval", "write_err" } ->
                /\ outbuf' = IF a = "written" THEN Append(outbuf, "packet")
                             ELSE outbuf
                /\ enc' = [enc EXCEPT !.pending = enc.pending - 1,
                                      !.last_write = WriteCode(a)]
                /\ IF WriteGoesOn(a)
                   THEN UNCHANGED <<pc, failure, result>>
                   ELSE /\ pc' = "done"
                        /\ failure' = "interleaved_write_frame"
                        /\ result' = ErrResult("interleaved_write_frame",
                                               outbuf')
           [] a \in { "drain", "flushed" } ->
                /\ pc' = IF enc.flushing THEN "trailer" ELSE "pull"
                /\ UNCHANGED <<enc, outbuf, failure, result>>
           [] a = "recv_err" ->
                Fail("receive_packet") /\ UNCHANGED <<enc, outbuf>>
    /\ UNCHANGED <<input, src, ret, events, calls>>
    /\ UNCHANGED cmdVars
    /\ UNCHANGED imgVars

\* Finalizing without the flush.
NextAfterNoneSkipsFlush == "trailer"

\* Where encode_mp4 goes when the source returns None: the flush.
NextAfterNone == "flush"

\* while let Some(src_frame) = src.next_frame()?
Pull ==
    /\ pc = "pull"
    /\ \E r \in SourceResults(src) :
         /\ src' = r.self
         /\ ret' = r.ret
         /\ CASE r.ret.tag = "some" ->
                   /\ pc' = "encode"
                   /\ events' = Append(events,
                                       Event("pull", r.self.frame_buffer.id))
                   /\ UNCHANGED <<failure, result>>
              [] r.ret.tag = "none" ->
                   /\ pc' = NextAfterNone
                   /\ events' = Append(events, Event("exhausted", 0))
                   /\ UNCHANGED <<failure, result>>
              [] r.ret.tag = "err" -> Fail(r.ret.msg) /\ UNCHANGED events
              [] r.ret.tag = "again" ->
                   UNCHANGED <<pc, events, failure, result>>
    /\ UNCHANGED <<input, enc, outbuf, calls>>
    /\ UNCHANGED cmdVars
    /\ UNCHANGED imgVars

\* encode_write_frame(None, ..): the flush
Flush ==
    /\ pc = "flush"
    /\ events' = Append(events, Event("flush", 0))
    /\ \E f \in { "none", "send_frame" } :
         IF f # "none"
         THEN Fail(f) /\ UNCHANGED enc
         ELSE /\ enc' = [enc EXCEPT !.flushing = TRUE]
              /\ pc' = "drain"
              /\ UNCHANGED <<failure, result>>
    /\ UNCHANGED <<input, src, ret, outbuf, calls>>
    /\ UNCHANGED cmdVars
    /\ UNCHANGED imgVars

\* The end of the block with the muxer and its callbacks kept alive.
drop_output_format_context_leaks(e) == e

\* The end of the block drops output_format_context: its AVIOContextCustom
\* goes, and with it the write_packet and seek closures, each of which
\* holds a clone of the Arc.
drop_output_format_context(e) == [e EXCEPT !.refs = @ - 2]

\* write_trailer()?; the block then ends and drops the muxer with its
\* write and seek callbacks.
Trailer ==
    /\ pc = "trailer"
    /\ \E f \in { "none", "write_trailer" } :
         /\ outbuf' = IF f = "none" THEN Append(outbuf, "trailer") ELSE outbuf
         /\ events' = IF f = "none" THEN Append(events, Event("trailer", 0))
                      ELSE events
         /\ IF TrailerGoesOn(f)
            THEN /\ pc' = "reclaim"
                 /\ enc' = drop_output_format_context(enc)
                 /\ UNCHANGED <<failure, result>>
            ELSE /\ pc' = "done"
                 /\ failure' = f
                 /\ result' = ErrResult(f, outbuf')
                 /\ UNCHANGED enc
    /\ UNCHANGED <<input, src, ret, calls>>
    /\ UNCHANGED cmdVars
    /\ UNCHANGED imgVars

\* Arc::into_inner(buffer).ok_or(..)?.into_inner()?.into_inner()
Reclaim ==
    /\ pc = "reclaim"
    /\ \E f \in { "none", "PoisonError" } :
         IF enc.refs # 1
         THEN Fail("Failed to get encoding output") /\ UNCHANGED events
         ELSE IF f # "none" THEN Fail(f) /\ UNCHANGED events
         ELSE /\ pc' = "done"
              /\ result' = OkResult(outbuf)
              /\ events' = Append(events, Event("return", 0))
              /\ UNCHANGED failure
    /\ UNCHANGED <<input, src, ret, enc, outbuf, calls>>
    /\ UNCHANGED cmdVars
    /\ UNCHANGED imgVars

(***************************************************************************)
(* The conversion call on its own: any input, any answers of the codec     *)
(* library.                                                                *)
(***************************************************************************)
VideoIdle ==
    /\ input = [kind |-> "none"]
    /\ pc = "idle"
    /\ src = None
    /\ ret = NoRet
    /\ enc = None
    /\ outbuf = <<>>
    /\ result = NoResult
    /\ failure = "none"
    /\ events = <<>>

CmdIdle ==
    /\ req = <<>>
    /\ LAST_UPDATE = <<>>
    /\ now = 0
    /\ effects = <<>>

ImgIdle ==
    /\ data = None
    /\ rgba = None
    /\ bgra = None
    /\ opt = None
    /\ detect = None
    /\ select = None
    /\ ipc = "idle"
    /\ iret = NoRet
    /\ words = <<>>
    /\ threads = <<>>

Init ==
    /\ input \in Inputs
    /\ pc = "entry"
    /\ src = None
    /\ ret = NoRet
    /\ enc = None
    /\ outbuf = <<>>
    /\ result = NoResult
    /\ failure = "none"
    /\ events = <<>>
    /\ calls = 0
    /\ CmdIdle
    /\ ImgIdle

Next ==
    \/ Open
    \/ PullFirst
    \/ Setup
    \/ Header
    \/ Encode
    \/ Drain
    \/ Pull
    \/ Flush
    \/ Trailer
    \/ Reclaim

Spec == Init /\ [][Next]_vars

(***************************************************************************)
(* Properties of the conversion call (specification Spec).                 *)
(***************************************************************************)
\* The positions of events whose op is op.
At(op) == { i \in 1..Len(events) : events[i].op = op }

IsOp(e, op) == e.op = op

\* The ids of the frames pulled from the source, and of those sent to the
\* encoder, in the order of the events.
PulledIds == SelectSeq(events, LAMBDA e : IsOp(e, "pull"))
SentIds == SelectSeq(events, LAMBDA e : IsOp(e, "send"))

IsPrefix(a, b) ==
    /\ Len(a) <= Len(b)
    /\ \A i \in 1..Len(a) : a[i].id = b[i].id

\* Every i of a comes after some j of b.
AllAfterSome(a, b) == \A i \in a : \E j \in b : j < i

\* Every i of a comes before every j of b.
AllBefore(a, b) == \A i \in a : \A j \in b : i < j

\* C1: in encode_mp4 the first frame is pulled before the encoder and the
\* muxer are set up; the header is written before any frame is sent; the
\* frames sent to the encoder are the frames the source yielded, each once
\* and in source order (all of them once the flush is sent); the flush is
\* sent once and only after the source returned None; the trailer is
\* written once, after the flush; the buffer is returned only after the
\* trailer; and no frame is sent after the flush.
C1_EncodeOrder ==
    /\ AllAfterSome(At("setup"), At("pull"))
    /\ AllAfterSome(At("send"), At("header"))
    /\ AllAfterSome(At("header"), At("setup"))
    /\ IsPrefix(SentIds, PulledIds)
    /\ Len(PulledIds) <= Len(SentIds) + 1
    /\ \A i \in 1..Len(PulledIds) :
         \A j \in 1..Len(PulledIds) : i < j => PulledIds[i].id < PulledIds[j].id
    /\ Cardinality(At("flush")) <= 1
    /\ AllAfterSome(At("flush"), At("exhausted"))
    /\ AllBefore(At("pull"), At("exhausted"))
    /\ At("flush") # {} => Len(SentIds) = Len(PulledIds)
    /\ AllBefore(At("send"), At("flush"))
    /\ Cardinality(At("trailer")) <= 1
    /\ AllAfterSome(At("trailer"), At("flush"))
    /\ AllAfterSome(At("return"), At("trailer"))
    /\ result.kind = "ok" => At("return") # {}

\* A call that ran to its end with two frames: both pulled, both sent,
\* flushed, finalized and returned.
C1_Witness ==
    /\ result.kind = "ok"
    /\ Len(SentIds) = 2
    /\ At("flush") # {}
    /\ At("trailer") # {}

\* The output buffer is complete: header first, trailer last.
Complete(buf) ==
    /\ Len(buf) >= 2
    /\ buf[1] = "header"
    /\ buf[Len(buf)] = "trailer"
    /\ \A i \in 2..(Len(buf) - 1) : buf[i] = "packet"

\* C2: tgs_to_mp4 / video_to_mp4 / encode_mp4 end either with the complete
\* buffer, returned only after the trailer was written, or with an error,
\* never with both: when a step failed the call returned an error and no
\* byte of the partly written buffer reached the caller.
C2_BufferOrError ==
    /\ pc # "done" => result = NoResult /\ failure = "none"
    /\ pc = "done" =>
         \/ /\ result.kind = "ok"
            /\ failure = "none"
            /\ result.buf = outbuf
            /\ Complete(outbuf)
         \/ /\ result.kind = "err"
            /\ failure # "none"
            /\ result.buf = <<>>

\* A call that failed after part of the output had been written.
C2_Witness ==
    /\ pc = "done"
    /\ result.kind = "err"
    /\ Len(outbuf) >= 2
    /\ failure = "write_trailer"

\* The frame the last event sent to the encoder is the source's frame_buffer.
JustSent == events # <<>> /\ events[Len(events)].op = "send"

\* C3: no frame whose presentation time (pts * time base) is beyond 10
\* seconds is ever sent to the encoder.
C3_NoFrameBeyondTenSeconds ==
    (JustSent /\ input.kind = "video") =>
        ~PresentationBeyond(src.frame_buffer.pts, src.time_base)

\* C4: the first frame yielded establishes the size and the format of all
\* frames that follow it: every frame sent to the encoder has the width,
\* the height and the pixel format the encode stage was set up with.
C4_FirstFrameEstablishesContract ==
    JustSent =>
        /\ src.frame_buffer.width = enc.width
        /\ src.frame_buffer.height = enc.height
        /\ src.frame_buffer.format = enc.sws_src_format

Abs(n) == IF n < 0 THEN -n ELSE n

IsVideo == input.kind = "video" /\ src # None

\* The centered square of a decoded w x h frame, as left on the frame (g)
\* by the crop: the offset, the margins and the cropped size.
CenteredSquare(w, h, g) ==
    LET L == Min(w, h)
        off == Abs(w - h) \div 2
    IN  /\ w > h => g.crop_left = off /\ g.crop_top = 0
        /\ h > w => g.crop_top = off /\ g.crop_left = 0
        /\ g.crop_left >= 0 /\ g.crop_right >= 0
        /\ g.crop_top >= 0 /\ g.crop_bottom >= 0
        /\ g.crop_left + g.crop_right + L = w
        /\ g.crop_top + g.crop_bottom + L = h
        /\ g.width = L /\ g.height = L

\* C5 as stated: for a decoded frame with w # h the source crops the
\* centered square of side L = min(w, h) and hands an L x L frame on.
C5_CropHandsOnLxL ==
    (IsVideo /\ ret.tag = "some" /\ src.received.width # src.received.height)
    => /\ CenteredSquare(src.received.width, src.received.height, src.frame)
       /\ src.frame_buffer.width = Min(src.received.width, src.received.height)
       /\ src.frame_buffer.height = Min(src.received.width, src.received.height)

\* The step of next_frame in which the scaler is created, ending in a yield.
ScalerCreatedAndYielded ==
    /\ IsVideo
    /\ src.sws_context.tag = "none"
    /\ src'.sws_context.tag = "some"
    /\ ret'.tag = "some"

\* Every frame that comes out of the scaler is D x D, D = L + L mod 2, L the
\* side of the crop window.
ScalerOutputIsEvenSquare ==
    (IsVideo /\ src.sws_context.tag = "some") =>
        LET sws == src.sws_context.val
        IN  /\ sws.dst_length = sws.src_length + (sws.src_length % 2)
            /\ src.crop_frame.tag = "some" =>
                 src.crop_frame.val.length = sws.src_length
            /\ src.frame_buffer.width = sws.dst_length
            /\ src.frame_buffer.height = sws.dst_length

\* C5 (amended): the crop window is computed once, from the frame on which
\* the scaler is created; when that frame has w # h the window is the
\* centered square of side L = min(w, h) (offset floor(|w - h| / 2) on the
\* longer axis, 0 on the other, margins non-negative and adding up with L
\* to the frame's dimension) and the frame is cropped to L x L; the frame
\* handed on is D x D with D = L + (L mod 2), as is every later frame.
C5_CenteredSquareCrop ==
    /\ []ScalerOutputIsEvenSquare
    /\ [][(ScalerCreatedAndYielded
           /\ src'.received.width # src'.received.height)
          => /\ CenteredSquare(src'.received.width, src'.received.height,
                               src'.frame)
             /\ src'.sws_context.val.src_length
                  = Min(src'.received.width, src'.received.height)]_vars

\* A 641 x 481 frame cropped by 80 columns on the left and handed on as
\* 482 x 482.
C5_Witness ==
    /\ IsVideo
    /\ ret.tag = "some"
    /\ src.received.width = 641 /\ src.received.height = 481
    /\ src.frame.crop_left = 80 /\ src.frame.crop_right = 80
    /\ src.frame.width = 481
    /\ src.frame_buffer.width = 482 /\ src.frame_buffer.height = 482

(***************************************************************************)
(* The rendered-animation source on its own (specification SpecSurface).   *)
(***************************************************************************)
InitSurface ==
    /\ input \in { i \in Inputs : i.kind = "tgs" }
    /\ pc = "iter"
    /\ src = decode_lottie(input.size, input.totalframe)
    /\ ret = NoRet
    /\ enc = None
    /\ outbuf = <<>>
    /\ result = NoResult
    /\ failure = "none"
    /\ events = <<>>
    /\ calls = 0
    /\ CmdIdle
    /\ ImgIdle

NextSurface == SurfaceCall

SpecSurface == InitSurface /\ [][NextSurface]_vars

IsSurface == input.kind = "tgs" /\ src # None

\* C6: the SurfaceIter of an animation with n frames yields exactly n
\* frames: the k-th frame yielded (from 0) is the render of frame index k
\* and carries timestamp k, the index grows by one per yielded frame, and
\* once the source returned None every later call returns None.
C6_SurfaceIterYieldsEachFrameOnce ==
    /\ [](IsSurface =>
            /\ src.frame_index = Len(PulledIds)
            /\ Len(PulledIds) <= src.totalframe
            /\ \A k \in 1..Len(PulledIds) : PulledIds[k].id = k
            /\ ret.tag = "some" =>
                 /\ src.frame_buffer.id = src.frame_index
                 /\ src.frame_buffer.pts = P(0, src.frame_index - 1)
            /\ ret.tag = "none" => Len(PulledIds) = src.totalframe)
    /\ [][IsSurface /\ ret.tag = "none" => ret'.tag = "none"]_vars

\* An animation of 3 frames, all yielded, and two calls after them that
\* returned None.
C6_Witness ==
    /\ IsSurface
    /\ pc = "iter"
    /\ src.totalframe = 3
    /\ Len(PulledIds) = 3
    /\ calls = 5
    /\ ret.tag = "none"

(***************************************************************************)
(* command.rs: handle_update and set_avatar.  Each request is one spawned  *)
(* task; an action runs it from one .await to the next.                    *)
(***************************************************************************)
SET_TIMEOUT == 60
MIN_INTERVAL == 30
MAX_FILESIZE == 10485760

Quantum == 30       \* seconds the clock advances by in one Tick
MaxNow == 60        \* the clock stops here

Requests == { "r1", "r2" }

\* CHAT_LIST, and a chat that is not in it.
CHAT_LIST == { "c1", "c2" }
Chats == CHAT_LIST \cup { "c0" }

\* Errors: an ErrorMessage (a text for the user), an InvocationError::Rpc,
\* or any other error.
ErrorMessage(text) == [kind |-> "msg", text |-> text]
Rpc(name) == [kind |-> "rpc", text |-> name]
OtherError == [kind |-> "other", text |-> ""]

\* What video_to_mp4, tgs_to_mp4, tgs_to_png and image_to_png fail with: a
\* library's error or a &str turned into a Box<dyn Error>, neither of them
\* an ErrorMessage.
ConversionError == [kind |-> "other", text |-> "conversion"]

\* impl Message for Error: the text replied to the user, if any.
message(e) ==
    IF e.kind = "rpc"
    THEN Some(CASE e.text = "PHOTO_CROP_SIZE_SMALL" -> "avatar too small"
                [] e.text = "CHAT_ADMIN_REQUIRED" -> "admin right required"
                [] e.text = "IMAGE_PROCESS_FAILED" -> "Telegram failed"
                [] OTHER -> e.text)
    ELSE IF e.kind = "msg" THEN Some(e.text)
    ELSE None

\* What a call of the platform can fail with.
RpcErrors == { Rpc("CHAT_ADMIN_REQUIRED"), OtherError }

RetOk == [kind |-> "ok"]
RetErr(e) == [kind |-> "err", error |-> e]
RetNone == [kind |-> "none"]

\* The media of the referenced message, as set_avatar reads it.
Mimes == { "none", "image/png", "video/mp4", "video/webm",
           "application/x-tgsticker" }

Medias ==
    { [kind |-> "none", size |-> 0, mime |-> "none", square |-> FALSE,
       url |-> u] : u \in BOOLEAN }
    \cup { [kind |-> "photo", size |-> z, mime |-> "none", square |-> FALSE,
            url |-> u] :
             z \in { MAX_FILESIZE, MAX_FILESIZE + 1 }, u \in BOOLEAN }
    \cup { [kind |-> k, size |-> z, mime |-> m, square |-> q, url |-> u] :
             k \in { "document", "sticker" },
             z \in { MAX_FILESIZE, MAX_FILESIZE + 1 },
             m \in Mimes, q \in BOOLEAN, u \in BOOLEAN }
    \cup { [kind |-> "other", size |-> 0, mime |-> "none", square |-> FALSE,
            url |-> u] : u \in BOOLEAN }

NewRequest ==
    [pc |-> "new", chat |-> "c0", dry_run |-> FALSE, started |-> 0,
     mime |-> "none", is_square |-> FALSE, is_video |-> FALSE,
     result |-> RetNone]

\* What a request did to the outside: upload_file called, edit_photo
\* invoked, the chat's Instant written, the media reply sent (and the message
\* it replies to), the error text replied, the error printed.
NoEffects ==
    [uploaded |-> FALSE, edit_photo |-> FALSE, stamped |-> FALSE,
     media_reply |-> "none", reply_to |-> "none",
     error_reply |-> "none", logged |-> FALSE,
     file_name |-> "none", image_to_png |-> 0]

\* The positions at which set_avatar is suspended in an .await.
Awaits == { "get_messages", "download", "link", "upload", "send_message",
            "edit_photo" }

\* A return that keeps the mutex locked.
UnlockNever(lu, r) == lu

\* Dropping the MutexGuard, if the request holds one.
Unlock(lu, r) ==
    [c \in DOMAIN lu |->
        IF lu[c].locked_by = r THEN [lu[c] EXCEPT !.locked_by = "none"]
        ELSE lu[c]]

Holds(r, c) == c \in DOMAIN LAST_UPDATE /\ LAST_UPDATE[c].locked_by = r

\* set_avatar returned res (or was dropped by timeout with res in its
\* place): its locals and the guard are dropped, and handle_update sends
\* the error's message to the user when it has one and prints it otherwise.
Return(r, res, lu, rq, fx) ==
    LET m == IF res.kind = "err" THEN message(res.error) ELSE None
    IN  /\ LAST_UPDATE' = Unlock(lu, r)
        /\ req' = [rq EXCEPT ![r].result = res,
                             ![r].pc = "done",
                             ![r].mime = "none",
                             ![r].is_square = FALSE]
        /\ effects' =
             [fx EXCEPT ![r].error_reply = IF m.tag = "some" THEN m.val
                                           ELSE "none",
                        ![r].logged = res.kind = "err" /\ m.tag = "none"]

\* A try_lock that hands out the guard whoever holds the mutex.
try_lock_shared(lu, c, r) == Some([lu EXCEPT ![c].locked_by = r])

\* try_lock on the chat's mutex: the guard, or the error at once.
try_lock(lu, c, r) ==
    IF lu[c].locked_by = "none"
    THEN Some([lu EXCEPT ![c].locked_by = r])
    ELSE None

\* A cooldown test that lets every request through.
InCooldownNever(instant, t) == FALSE

\* chat_last_update.elapsed() < MIN_INTERVAL
InCooldown(instant, t) == t - instant < MIN_INTERVAL

\* handle_update spawns the task and set_avatar runs to its first .await:
\* the chat's lock, the cooldown, the referenced message.
SetAvatarStart(r) ==
    /\ req[r].pc = "new"
    /\ \E c \in Chats, dry \in BOOLEAN, has_reply \in BOOLEAN :
         LET rq == [req EXCEPT ![r].chat = c, ![r].dry_run = dry,
                               ![r].started = now]
             got == IF c \in DOMAIN LAST_UPDATE
                    THEN try_lock(LAST_UPDATE, c, r) ELSE None
         IN  IF c \notin DOMAIN LAST_UPDATE
             THEN Return(r, RetErr(ErrorMessage("not served")),
                         LAST_UPDATE, rq, effects)
             ELSE IF got.tag = "none"
             THEN Return(r, RetErr(ErrorMessage("busy")),
                         LAST_UPDATE, rq, effects)
             ELSE IF ~dry /\ InCooldown(LAST_UPDATE[c].instant, now)
             THEN Return(r, RetErr(ErrorMessage("cooldown")),
                         got.val, rq, effects)
             ELSE IF ~has_reply
             THEN Return(r, RetErr(ErrorMessage("no reply")),
                         got.val, rq, effects)
             ELSE /\ LAST_UPDATE' = got.val
                  /\ req' = [rq EXCEPT ![r].pc = "get_messages"]
                  /\ UNCHANGED effects
    /\ UNCHANGED now
    /\ UNCHANGED videoVars
    /\ UNCHANGED imgVars

\* download = size <= MAX_FILESIZE, for the media that can be downloaded
Downloadable(m) ==
    m.kind \in { "photo", "document", "sticker" } /\ m.size <= MAX_FILESIZE

\* get_messages_by_id answered; set_avatar looks at the media and starts
\* the download or the link preview.
GetMessagesDone(r) ==
    /\ req[r].pc = "get_messages"
    /\ \/ \E e \in RpcErrors : Return(r, RetErr(e), LAST_UPDATE, req, effects)
       \/ Return(r, RetErr(ErrorMessage("read failed")), LAST_UPDATE, req,
                 effects)
       \/ \E m \in Medias :
            IF m.kind # "none" /\ Downloadable(m)
            THEN /\ req' = [req EXCEPT ![r].pc = "download",
                                       ![r].mime = m.mime,
                                       ![r].is_square = m.square]
                 /\ UNCHANGED <<LAST_UPDATE, effects>>
            ELSE IF m.kind # "none" /\ m.url
            THEN /\ req' = [req EXCEPT ![r].pc = "link"]
                 /\ UNCHANGED <<LAST_UPDATE, effects>>
            ELSE Return(r, RetErr(ErrorMessage("unsupported")), LAST_UPDATE,
                        req, effects)
    /\ UNCHANGED now
    /\ UNCHANGED videoVars
    /\ UNCHANGED imgVars

\* The conversions of the downloaded buffer by its mime type: is_video and
\* is_square after them, and the converter called ("none": no conversion).
\* The conversion with `is_square = true` left out after video_to_mp4.
ConvertKeepsFlag(mime, is_square) ==
    IF mime \in { "video/mp4", "video/webm" }
    THEN IF ~is_square \/ mime # "video/mp4"
         THEN [is_video |-> TRUE, is_square |-> is_square,
               call |-> "video_to_mp4"]
         ELSE [is_video |-> TRUE, is_square |-> is_square, call |-> "none"]
    ELSE IF mime = "application/x-tgsticker"
    THEN [is_video |-> TRUE, is_square |-> is_square,
          call |-> IF is_square THEN "tgs_to_mp4" ELSE "tgs_to_png"]
    ELSE [is_video |-> FALSE, is_square |-> is_square, call |-> "none"]

Convert(mime, is_square) ==
    IF mime \in { "video/mp4", "video/webm" }
    THEN IF ~is_square \/ mime # "video/mp4"
         THEN [is_video |-> TRUE, is_square |-> TRUE, call |-> "video_to_mp4"]
         ELSE [is_video |-> TRUE, is_square |-> is_square, call |-> "none"]
    ELSE IF mime = "application/x-tgsticker"
    THEN [is_video |-> TRUE, is_square |-> is_square,
          call |-> IF is_square THEN "tgs_to_mp4" ELSE "tgs_to_png"]
    ELSE [is_video |-> FALSE, is_square |-> is_square, call |-> "none"]

\* if let Some(mut buf) = image: is_video = is_video && is_square, image_to_png
\* unless it is a video, then upload_file(..).await.  png_ok: image_to_png
\* succeeds.
StartUpload(r, is_video, is_square, png_ok) ==
    LET video == is_video /\ is_square
    IN  IF ~video /\ ~png_ok
        THEN Return(r, RetErr(ConversionError), LAST_UPDATE, req,
                    [effects EXCEPT ![r].image_to_png = @ + 1])
        ELSE /\ req' = [req EXCEPT ![r].pc = "upload",
                                   ![r].is_video = video,
                                   ![r].is_square = is_square,
                                   ![r].mime = "none"]
             /\ effects' = [effects EXCEPT
                              ![r].uploaded = TRUE,
                              ![r].file_name = IF video THEN "file.mp4"
                                               ELSE "file.png",
                              ![r].image_to_png = IF video THEN @ ELSE @ + 1]
             /\ UNCHANGED LAST_UPDATE

\* iter_download delivered the file (or failed); the buffer is converted
\* and the upload starts.
DownloadDone(r) ==
    /\ req[r].pc = "download"
    /\ \/ \E e \in RpcErrors : Return(r, RetErr(e), LAST_UPDATE, req, effects)
       \/ \E conv_ok \in BOOLEAN, png_ok \in BOOLEAN :
            LET cv == Convert(req[r].mime, req[r].is_square)
            IN  IF cv.call # "none" /\ ~conv_ok
                THEN Return(r, RetErr(ConversionError), LAST_UPDATE, req,
                            effects)
                ELSE StartUpload(r, cv.is_video, cv.is_square, png_ok)
    /\ UNCHANGED now
    /\ UNCHANGED videoVars
    /\ UNCHANGED imgVars

\* link_to_img answered: an error, no Open Graph image, or the image.
LinkDone(r) ==
    /\ req[r].pc = "link"
    /\ \/ Return(r, RetErr(OtherError), LAST_UPDATE, req, effects)
       \/ Return(r, RetErr(ErrorMessage("unsupported")), LAST_UPDATE, req,
                 effects)
       \/ \E png_ok \in BOOLEAN : StartUpload(r, FALSE, FALSE, png_ok)
    /\ UNCHANGED now
    /\ UNCHANGED videoVars
    /\ UNCHANGED imgVars

\* A delivery that applies the buffer whatever dry_run says.
DeliveryIgnoresDryRun(dry_run) == "edit_photo"

\* if opt.dry_run { send_message } else { edit_photo }
Delivery(dry_run) == IF dry_run THEN "send_message" ELSE "edit_photo"

\* upload_file answered; the buffer is replied (dry run) or applied.
\* channel: try_to_input_channel gives the chat's channel.
UploadDone(r) ==
    /\ req[r].pc = "upload"
    /\ \/ \E e \in RpcErrors : Return(r, RetErr(e), LAST_UPDATE, req, effects)
       \/ /\ Delivery(req[r].dry_run) = "send_message"
          /\ req' = [req EXCEPT ![r].pc = "send_message"]
          /\ effects' = [effects EXCEPT
                           ![r].media_reply = IF req[r].is_video
                                              THEN "document video/mp4"
                                              ELSE "photo",
                           ![r].reply_to = "referenced message"]
          /\ UNCHANGED LAST_UPDATE
       \/ /\ Delivery(req[r].dry_run) = "edit_photo"
          /\ \E channel \in BOOLEAN :
               IF ~channel
               THEN Return(r, RetErr(ErrorMessage("no channel")), LAST_UPDATE,
                           req, effects)
               ELSE /\ req' = [req EXCEPT ![r].pc = "edit_photo"]
                    /\ effects' = [effects EXCEPT ![r].edit_photo = TRUE]
                    /\ UNCHANGED LAST_UPDATE
    /\ UNCHANGED now
    /\ UNCHANGED videoVars
    /\ UNCHANGED imgVars

\* send_message (the dry-run reply) answered.
SendMessageDone(r) ==
    /\ req[r].pc = "send_message"
    /\ \/ \E e \in RpcErrors : Return(r, RetErr(e), LAST_UPDATE, req, effects)
       \/ Return(r, RetOk, LAST_UPDATE, req, effects)
    /\ UNCHANGED now
    /\ UNCHANGED videoVars
    /\ UNCHANGED imgVars

\* A write of the Instant that does not look at edit_photo's result.
StampAlways(lu, c, ok, t) == [lu EXCEPT ![c].instant = t]

\* self.edit_photo(..).await?; *chat_last_update = Instant::now();
Stamp(lu, c, ok, t) == IF ok THEN [lu EXCEPT ![c].instant = t] ELSE lu

\* edit_photo's invoke answered.
EditPhotoDone(r) ==
    /\ req[r].pc = "edit_photo"
    /\ \E a \in { RetOk } \cup { RetErr(e) : e \in RpcErrors } :
         LET lu == Stamp(LAST_UPDATE, req[r].chat, a.kind = "ok", now)
         IN  Return(r, a, lu, req,
                    [effects EXCEPT ![r].stamped =
                        lu[req[r].chat].instant
                          # LAST_UPDATE[req[r].chat].instant])
    /\ UNCHANGED now
    /\ UNCHANGED videoVars
    /\ UNCHANGED imgVars

\* A timer that runs out after MIN_INTERVAL.
ElapsedEarly(started, t) == t - started >= MIN_INTERVAL

\* The timer of timeout(SET_TIMEOUT, ..) has run out.
Elapsed(started, t) == t - started >= SET_TIMEOUT

\* timeout(..) finds set_avatar pending and its timer run out: the future
\* is dropped where it is suspended, and the result is the timeout error.
Expire(r) ==
    /\ req[r].pc \in Awaits
    /\ Elapsed(req[r].started, now)
    /\ Return(r, RetErr(ErrorMessage("timeout")), LAST_UPDATE, req, effects)
    /\ UNCHANGED now
    /\ UNCHANGED videoVars
    /\ UNCHANGED imgVars

\* Time passes.
Tick ==
    /\ now < MaxNow
    /\ now' = now + Quantum
    /\ UNCHANGED <<req, LAST_UPDATE, effects>>
    /\ UNCHANGED videoVars
    /\ UNCHANGED imgVars

\* lazy_static LAST_UPDATE: every chat of CHAT_LIST unlocked, with an Instant
\* MIN_INTERVAL in the past.
InitCmd ==
    /\ now = 0
    /\ LAST_UPDATE = [c \in CHAT_LIST |->
                        [locked_by |-> "none", instant |-> now - MIN_INTERVAL]]
    /\ req = [r \in Requests |-> NewRequest]
    /\ effects = [r \in Requests |-> NoEffects]
    /\ VideoIdle
    /\ calls = 0
    /\ ImgIdle

NextCmd ==
    \/ \E r \in Requests : SetAvatarStart(r)
    \/ \E r \in Requests : GetMessagesDone(r)
    \/ \E r \in Requests : DownloadDone(r)
    \/ \E r \in Requests : LinkDone(r)
    \/ \E r \in Requests : UploadDone(r)
    \/ \E r \in Requests : SendMessageDone(r)
    \/ \E r \in Requests : EditPhotoDone(r)
    \/ \E r \in Requests : Expire(r)
    \/ Tick

SpecCmd == InitCmd /\ [][NextCmd]_vars

(***************************************************************************)
(* Properties of the command layer.                                        *)
(***************************************************************************)
InProgress(r) == req[r].pc \in Awaits
Busy == RetErr(ErrorMessage("busy"))
TimedOut == RetErr(ErrorMessage("timeout"))
Cooldown == RetErr(ErrorMessage("cooldown"))

\* The requests whose set_avatar is suspended with chat c's guard.
Holders(c) == { r \in Requests : InProgress(r) /\ req[r].chat = c }

\* C7: for each served chat at most one set_avatar request holds the chat's
\* lock at any time, and it holds it exactly while it is in progress; a
\* request that arrives is rejected in its first step with the "processing
\* the previous request" error exactly when another request of the same
\* chat is in progress, so requests of different chats never reject or
\* block each other.
C7_PerChatLock ==
    /\ [](\A c \in CHAT_LIST :
            /\ Cardinality(Holders(c)) <= 1
            /\ \A r \in Requests :
                 r \in Holders(c) <=> LAST_UPDATE[c].locked_by = r)
    /\ [][\A r \in Requests :
            (req[r].pc = "new" /\ req'[r].pc # "new") =>
              /\ req'[r].pc \in Awaits \cup { "done" }
              /\ req'[r].result = Busy <=>
                   \E q \in Requests \ { r } :
                      InProgress(q) /\ req[q].chat = req'[r].chat
              /\ req'[r].result = Busy => req'[r].pc = "done"]_vars

C7_Witness ==
    \E r \in Requests, q \in Requests :
       /\ r # q
       /\ InProgress(r)
       /\ req[q].chat = req[r].chat
       /\ req[q].pc = "done"
       /\ req[q].result = Busy
       /\ effects[q].error_reply = "busy"

\* C8: a set_avatar request gets the "request timed out" result only while
\* it is suspended and SET_TIMEOUT (60 s) after it started; the text is
\* replied to the user, the guard is released, and in that step and ever
\* after the request uploads nothing, edits no avatar and does not write
\* the chat's timestamp.
C8_Timeout ==
    /\ [](\A r \in Requests :
            req[r].result = TimedOut =>
              /\ req[r].pc = "done"
              /\ effects[r].error_reply = "timeout"
              /\ \A c \in CHAT_LIST : LAST_UPDATE[c].locked_by # r)
    /\ [][\A r \in Requests :
            /\ (req[r].result # TimedOut /\ req'[r].result = TimedOut) =>
                 /\ InProgress(r)
                 /\ now - req[r].started >= SET_TIMEOUT
                 /\ effects'[r] = [effects[r] EXCEPT !.error_reply = "timeout"]
                 /\ LAST_UPDATE'[req[r].chat].instant
                      = LAST_UPDATE[req[r].chat].instant
            /\ req[r].result = TimedOut =>
                 /\ req'[r] = req[r]
                 /\ effects'[r] = effects[r]]_vars

C8_Witness ==
    \E r \in Requests :
       /\ req[r].result = TimedOut
       /\ req[r].pc = "done"
       /\ effects[r].uploaded
       /\ ~effects[r].edit_photo
       /\ ~effects[r].stamped
       /\ effects[r].error_reply = "timeout"

\* C9: a chat's timestamp changes only in the step in which edit_photo
\* succeeded for a request of that chat that is not a dry run, and it
\* becomes the time of that step; every such success writes it, and a
\* request that is a dry run, was rejected, failed or timed out has not
\* written it.
C9_TimestampOnlyAfterEdit ==
    /\ [](\A r \in Requests :
            effects[r].stamped <=>
              (req[r].pc = "done" /\ req[r].result = RetOk
                 /\ ~req[r].dry_run))
    /\ [][\A c \in CHAT_LIST :
            LAST_UPDATE'[c].instant # LAST_UPDATE[c].instant =>
              \E r \in Requests :
                 /\ req[r].chat = c
                 /\ ~req[r].dry_run
                 /\ req[r].pc = "edit_photo"
                 /\ req'[r].result = RetOk
                 /\ effects'[r].stamped
                 /\ LAST_UPDATE'[c].instant = now]_vars

C9_Witness ==
    \E r \in Requests, q \in Requests :
       /\ effects[r].stamped
       /\ req[r].result = RetOk
       /\ LAST_UPDATE[req[r].chat].instant = now
       /\ req[q].chat = req[r].chat
       /\ req[q].result = Cooldown
       /\ ~effects[q].stamped

\* C10: a dry-run request never calls edit_photo; what it sends is a reply
\* to the referenced message, an MP4 document when the buffer is a video
\* and a photo otherwise.  A request that is not a dry run sends no media
\* reply, and succeeds only through edit_photo.
C10_DryRunDelivery ==
    \A r \in Requests :
       /\ req[r].dry_run =>
            /\ ~effects[r].edit_photo
            /\ req[r].pc # "edit_photo"
            /\ effects[r].media_reply # "none" =>
                 /\ effects[r].media_reply =
                      (IF req[r].is_video THEN "document video/mp4"
                       ELSE "photo")
                 /\ effects[r].reply_to = "referenced message"
       /\ ~req[r].dry_run =>
            /\ effects[r].media_reply = "none"
            /\ req[r].pc # "send_message"
       /\ req[r].pc = "send_message" => effects[r].media_reply # "none"
       /\ req[r].pc = "edit_photo" => effects[r].edit_photo
       /\ req[r].result = RetOk =>
            IF req[r].dry_run THEN effects[r].media_reply # "none"
            ELSE effects[r].edit_photo

C10_Witness ==
    \E r \in Requests, q \in Requests :
       /\ req[r].dry_run
       /\ req[r].result = RetOk
       /\ req[r].is_video
       /\ effects[r].media_reply = "document video/mp4"
       /\ ~effects[r].edit_photo
       /\ ~req[q].dry_run
       /\ req[q].result = RetOk
       /\ effects[q].edit_photo
       /\ effects[q].media_reply = "none"

(***************************************************************************)
(* image.rs: the background helpers.  A pixel is <<c0, c1, c2, alpha>>     *)
(* (pixel[3] of the code is the 4th element here); an image is its width,  *)
(* its height and its pixels row by row.                                   *)
(***************************************************************************)
Max(a, b) == IF a > b THEN a ELSE b

\* "as u8" of an i32: the low 8 bits.
AsU8(v) == v % 256

\* An alpha_composite that rounds the blend toward minus infinity.
alpha_composite_floor(pixel, color) ==
    LET a == pixel[4]
        ch(i) == IF a = 255 THEN pixel[i]
                 ELSE IF a = 0 THEN AsU8(color[i])
                 ELSE AsU8(color[i] + ((pixel[i] - color[i]) * a) \div 255)
    IN  <<ch(1), ch(2), ch(3), 255>>

\* An alpha_composite that paints the background over opaque pixels too.
alpha_composite_overwrite(pixel, color) ==
    <<AsU8(color[1]), AsU8(color[2]), AsU8(color[3]), 255>>

\* An alpha_composite that leaves the alpha byte as it was.
alpha_composite_keeps_alpha(pixel, color) ==
    LET a == pixel[4]
        ch(i) == IF a = 255 THEN pixel[i]
                 ELSE IF a = 0 THEN AsU8(color[i])
                 ELSE AsU8(color[i] + RustDiv((pixel[i] - color[i]) * a, 255))
    IN  <<ch(1), ch(2), ch(3), a>>

\* fn alpha_composite(pixel: &mut [u8; 4], color: [i32; 3])
alpha_composite(pixel, color) ==
    LET a == pixel[4]
        ch(i) == IF a = 255 THEN pixel[i]
                 ELSE IF a = 0 THEN AsU8(color[i])
                 ELSE AsU8(color[i] + RustDiv((pixel[i] - color[i]) * a, 255))
    IN  <<ch(1), ch(2), ch(3), 255>>

\* pub fn set_color(data: &mut [u8], color: [i32; 3])
set_color(pixels, color) ==
    [k \in 1..Len(pixels) |-> alpha_composite(pixels[k], color)]

RGB_COLOR ==
    << <<91, 206, 250>>, <<245, 169, 184>>, <<255, 255, 255>>,
       <<245, 169, 184>>, <<91, 206, 250>> >>

BGR_COLOR ==
    << <<250, 206, 91>>, <<184, 169, 245>>, <<255, 255, 255>>,
       <<184, 169, 245>>, <<250, 206, 91>> >>

\* split_index[i] = split_index[i - 1] + (height - split_index[i - 1]) / (6 - i)
\* Boundaries at multiples of the height's fifth, rounded up.
SplitAtCeil(height, i) == i * ((height + 4) \div 5)

RECURSIVE SplitAt(_, _)
SplitAt(height, i) ==
    IF i = 0 THEN 0
    ELSE LET prev == SplitAt(height, i - 1)
         IN  prev + (height - prev) \div (6 - i)

split_index(height) == [i \in 0..5 |-> SplitAt(height, i)]

\* The scan of trans_flag over the pixels k..n: the color_index each pixel
\* is composited with.  x, y, color_index are the loop's variables before
\* pixel k.
RECURSIVE color_index_scan(_, _, _, _, _, _, _)
color_index_scan(k, n, width, split, x, y, color_index) ==
    IF k > n THEN <<>>
    ELSE LET ci == IF y > split[color_index + 1] THEN color_index + 1
                   ELSE color_index
             wrap == x + 1 = width
         IN  <<ci>> \o color_index_scan(k + 1, n, width, split,
                                        IF wrap THEN 0 ELSE x + 1,
                                        IF wrap THEN y + 1 ELSE y, ci)

\* The color_index of every pixel of a width x height image.
color_indexes(width, height) ==
    color_index_scan(1, width * height, width, split_index(height), 0, 0, 0)

\* pub fn trans_flag(data: &mut [u8], width: usize, height: usize, rgb: bool)
trans_flag(pixels, width, height, rgb) ==
    LET color == IF rgb THEN RGB_COLOR ELSE BGR_COLOR
        ci == color_indexes(width, height)
    IN  [k \in 1..Len(pixels) |-> alpha_composite(pixels[k], color[ci[k] + 1])]

\* Color::Rgb(x) and Color::Trans
Rgb(x) == [tag |-> "Rgb", rgb |-> x]
Trans == [tag |-> "Trans"]

\* A frame_set_color that hands set_color the colour in RGB order.
frame_set_color_rgb(f, color) ==
    IF f.format # "BGRA" THEN f
    ELSE IF color.tag = "Rgb"
    THEN [f EXCEPT !.pixels = set_color(f.pixels, color.rgb)]
    ELSE [f EXCEPT !.pixels = trans_flag(f.pixels, f.width, f.height, FALSE)]

\* unsafe fn frame_set_color(frame: &mut AVFrame, color: Color)
frame_set_color(f, color) ==
    IF f.format # "BGRA" THEN f
    ELSE IF color.tag = "Rgb"
    THEN [f EXCEPT !.pixels =
            set_color(f.pixels,
                      <<color.rgb[3], color.rgb[2], color.rgb[1]>>)]
    ELSE [f EXCEPT !.pixels = trans_flag(f.pixels, f.width, f.height, FALSE)]

\* image_to_png's last step before encoding: the background, unless the
\* detection picture was asked for.
apply_color(img, o) ==
    IF o.show_detect THEN img
    ELSE IF o.color.tag = "Trans"
    THEN [img EXCEPT !.pixels = trans_flag(img.pixels, img.width, img.height,
                                           TRUE)]
    ELSE [img EXCEPT !.pixels = set_color(img.pixels, o.color.rgb)]

(***************************************************************************)
(* The background on its own: a pixel buffer coloured once as the RGBA     *)
(* image of image_to_png and once as the BGRA frame of the video path.     *)
(***************************************************************************)
MaxWidth == 2       \* widest buffer coloured
MaxHeight == 11     \* tallest buffer coloured

PixelSamples ==
    << <<0, 0, 0, 0>>, <<255, 255, 255, 255>>, <<10, 200, 30, 255>>,
       <<10, 200, 30, 0>>, <<255, 0, 128, 1>>, <<0, 255, 127, 254>>,
       <<100, 150, 250, 128>>, <<1, 254, 77, 127>> >>

\* width * height pixels taken from PixelSamples, from offset on, stride
\* apart.
Pattern(width, height, offset, stride) ==
    [k \in 1..(width * height) |->
        PixelSamples[((offset + (k - 1) * stride) % Len(PixelSamples)) + 1]]

Image(width, height, pixels) ==
    [width |-> width, height |-> height, pixels |-> pixels]

ColorImages ==
    { Image(w, h, Pattern(w, h, o, t)) :
        w \in 1..MaxWidth, h \in 1..MaxHeight,
        o \in 0..(Len(PixelSamples) - 1), t \in { 0, 1 } }

\* The colours an option string can give: three bytes, or the flag.
Colors ==
    { Trans, Rgb(<<255, 255, 255>>), Rgb(<<0, 0, 0>>), Rgb(<<18, 52, 86>>) }

\* The same pixel with its first and third byte exchanged.
SwapRB(p) == <<p[3], p[2], p[1], p[4]>>

\* The frame_buffer holding the pixels of img in the given format.
FrameOf(img, format) ==
    [format |-> format, width |-> img.width, height |-> img.height,
     pixels |-> [k \in 1..Len(img.pixels) |-> SwapRB(img.pixels[k])]]

InitColor ==
    /\ data \in { [kind |-> "pixels", image |-> i] : i \in ColorImages }
    /\ rgba = data.image
    /\ bgra \in { FrameOf(data.image, f) : f \in { "BGRA", "YUV420P" } }
    /\ opt \in { [color |-> c, align |-> None, show_detect |-> FALSE] :
                   c \in Colors }
    /\ detect = None
    /\ select = None
    /\ ipc = "color"
    /\ iret = NoRet
    /\ words = <<>>
    /\ threads = <<>>
    /\ VideoIdle
    /\ calls = 0
    /\ CmdIdle

\* image_to_png colours its RgbaImage.
ImageColor ==
    /\ ipc \in { "color", "image_pending" }
    /\ rgba' = apply_color(rgba, opt)
    /\ ipc' = IF ipc = "color" THEN "frame_pending" ELSE "colored"
    /\ UNCHANGED <<data, bgra, opt, words, threads, detect, select, iret>>
    /\ UNCHANGED videoVars
    /\ UNCHANGED cmdVars

\* A frame source colours its frame_buffer.
FrameColor ==
    /\ ipc \in { "color", "frame_pending" }
    /\ bgra' = frame_set_color(bgra, opt.color)
    /\ ipc' = IF ipc = "color" THEN "image_pending" ELSE "colored"
    /\ UNCHANGED <<data, rgba, opt, words, threads, detect, select, iret>>
    /\ UNCHANGED videoVars
    /\ UNCHANGED cmdVars

NextColor ==
    \/ ImageColor
    \/ FrameColor

SpecColor == InitColor /\ [][NextColor]_vars

(***************************************************************************)
(* Properties of the background helpers.                                   *)
(***************************************************************************)
ImageColored == ipc \in { "frame_pending", "colored" }
FrameColored == ipc \in { "image_pending", "colored" } /\ bgra.format = "BGRA"

\* The pixels before colouring, in the image's and in the frame's layout.
Before(k) == data.image.pixels[k]
BeforeBGRA(k) == SwapRB(data.image.pixels[k])

Pixels == 1..Len(data.image.pixels)

\* The backgrounds pixel k may have been composited with, in RGB order and
\* in the frame's order.
Backgrounds ==
    IF opt.color.tag = "Rgb" THEN { opt.color.rgb }
    ELSE { RGB_COLOR[i] : i \in 1..5 }

BackgroundsBGR == { <<c[3], c[2], c[1]>> : c \in Backgrounds }

\* C11: a pixel whose alpha is 255 keeps its four bytes under every
\* background (solid or flag, image or frame layout), so a fully opaque
\* buffer comes out of set_color and trans_flag unchanged.
C11_OpaqueUnchanged ==
    /\ ImageColored =>
         /\ \A k \in Pixels : Before(k)[4] = 255 => rgba.pixels[k] = Before(k)
         /\ (\A k \in Pixels : Before(k)[4] = 255) => rgba = data.image
    /\ FrameColored =>
         \A k \in Pixels :
            BeforeBGRA(k)[4] = 255 => bgra.pixels[k] = BeforeBGRA(k)

C11_Witness ==
    /\ ipc = "colored"
    /\ bgra.format = "BGRA"
    /\ opt.color = Rgb(<<18, 52, 86>>)
    /\ Len(data.image.pixels) >= 4
    /\ \A k \in Pixels : Before(k) = <<10, 200, 30, 255>>
    /\ rgba = data.image

\* C12: a pixel whose alpha is 0 becomes exactly the background colour
\* with alpha 255, whatever its colour bytes were.
C12_TransparentBecomesBackground ==
    /\ ImageColored =>
         \A k \in Pixels :
            Before(k)[4] = 0 =>
              \E c \in Backgrounds : rgba.pixels[k] = <<c[1], c[2], c[3], 255>>
    /\ FrameColored =>
         \A k \in Pixels :
            Before(k)[4] = 0 =>
              \E c \in BackgroundsBGR :
                 bgra.pixels[k] = <<c[1], c[2], c[3], 255>>

C12_Witness ==
    /\ ImageColored
    /\ opt.color = Rgb(<<18, 52, 86>>)
    /\ \E k \in Pixels :
          /\ Before(k) = <<10, 200, 30, 0>>
          /\ rgba.pixels[k] = <<18, 52, 86, 255>>

\* bg + (src - bg) * a / 255 with the quotient rounded toward zero.
Blend(source, bg, a) ==
    IF source >= bg THEN bg + ((source - bg) * a) \div 255
    ELSE bg - ((bg - source) * a) \div 255

\* C13: a pixel with 0 < alpha < 255 gets in each colour channel
\* bg + (src - bg) * a / 255 (integer division, rounding toward zero), a
\* value between src and bg inclusive and so a byte, and alpha 255.
C13_PartialAlphaBlend ==
    ImageColored =>
      \A k \in Pixels :
         (0 < Before(k)[4] /\ Before(k)[4] < 255) =>
           /\ rgba.pixels[k][4] = 255
           /\ \E c \in Backgrounds :
                 \A i \in 1..3 :
                    /\ rgba.pixels[k][i] = Blend(Before(k)[i], c[i], Before(k)[4])
                    /\ rgba.pixels[k][i] >= Min(Before(k)[i], c[i])
                    /\ rgba.pixels[k][i] <= Max(Before(k)[i], c[i])
                    /\ rgba.pixels[k][i] \in 0..255

C13_Witness ==
    /\ ImageColored
    /\ opt.color = Rgb(<<18, 52, 86>>)
    /\ \E k \in Pixels :
          /\ Before(k) = <<255, 0, 128, 1>>
          /\ rgba.pixels[k] = <<18, 52, 86, 255>>
    /\ \E k \in Pixels :
          /\ Before(k) = <<100, 150, 250, 128>>
          /\ rgba.pixels[k] = <<59, 101, 168, 255>>

\* The palette bands the pixels of row y were composited with, and the rows
\* of band b, as trans_flag scans the image being coloured.
BandsOfRow(y) ==
    { color_indexes(rgba.width, rgba.height)[y * rgba.width + x + 1] :
        x \in 0..(rgba.width - 1) }

Rows == 0..(rgba.height - 1)

RowsOfBand(b) == { y \in Rows : b \in BandsOfRow(y) }

FlagPainted == ImageColored /\ opt.color = Trans

\* C14: for every width >= 1 and height >= 5 each row belongs to exactly
\* one of the 5 bands, the rows of a band are contiguous, the bands follow
\* each other in palette order, all 5 bands are non-empty, and together
\* they cover all rows.
C14_FiveContiguousBands ==
    (FlagPainted /\ rgba.height >= 5) =>
      /\ \A y \in Rows : Cardinality(BandsOfRow(y)) = 1
      /\ \A y \in Rows : BandsOfRow(y) \subseteq 0..4
      /\ \A b \in 0..4 : RowsOfBand(b) # {}
      /\ \A b \in 0..4 : \A y1 \in RowsOfBand(b), y2 \in RowsOfBand(b) :
            \A y \in y1..y2 : y \in RowsOfBand(b)
      /\ \A b \in 0..3 : \A y1 \in RowsOfBand(b), y2 \in RowsOfBand(b + 1) :
            y1 < y2

\* C15: each of the first four bands covers exactly floor(h / 5) rows and
\* the fifth band covers the remaining h - 4 * floor(h / 5) rows.
C15_EqualBandsLastAbsorbsRemainder ==
    FlagPainted =>
      /\ \A b \in 0..3 : Cardinality(RowsOfBand(b)) = rgba.height \div 5
      /\ Cardinality(RowsOfBand(4))
           = rgba.height - 4 * (rgba.height \div 5)

\* C16: the background gives the same picture in both layouts: after both
\* were coloured, every pixel of the BGRA frame is the pixel of the RGBA
\* image with its red and blue bytes exchanged, for the flag and for a
\* solid colour.
C16_SamePictureInBothLayouts ==
    (ipc = "colored" /\ bgra.format = "BGRA") =>
      /\ Len(bgra.pixels) = Len(rgba.pixels)
      /\ \A k \in Pixels : bgra.pixels[k] = SwapRB(rgba.pixels[k])

C16_Witness ==
    /\ ipc = "colored"
    /\ bgra.format = "BGRA"
    /\ opt.color = Rgb(<<18, 52, 86>>)
    /\ \E k \in Pixels :
          /\ Before(k) = <<100, 150, 250, 128>>
          /\ rgba.pixels[k] = <<59, 101, 168, 255>>
          /\ bgra.pixels[k] = <<168, 101, 59, 255>>

(***************************************************************************)
(* image.rs: cropping.  Pixel (x, y) of an image is pixels[y * width + x   *)
(* + 1]; a rectangle is [x, y, width, height] as image::math::Rect.        *)
(***************************************************************************)
PixelAt(img, x, y) == img.pixels[y * img.width + x + 1]

Rect(x, y, width, height) ==
    [x |-> x, y |-> y, width |-> width, height |-> height]

\* img.sub_image(x, y, width, height).to_image()
sub_image(img, x, y, width, height) ==
    Image(width, height,
          [k \in 1..(width * height) |->
              PixelAt(img, x + ((k - 1) % width), y + ((k - 1) \div width))])

Aligns == { "Top", "Bottom", "Center" }

\* A square_image that also cuts images wider than tall.
square_image_cuts_wide(img, align) ==
    LET side == Min(img.width, img.height)
    IN  IF img.width = img.height THEN None
        ELSE Some(sub_image(img, 0, 0, side, side))

\* A square_image whose Bottom and Center windows start one row early.
square_image_row_early(img, align) ==
    IF img.width >= img.height THEN None
    ELSE IF align = "Top"
    THEN Some(sub_image(img, 0, 0, img.width, img.width))
    ELSE IF align = "Bottom"
    THEN Some(sub_image(img, 0, img.height - img.width - 1, img.width,
                        img.width))
    ELSE Some(sub_image(img, 0, (img.height - img.width - 1) \div 2,
                        img.width, img.width))

\* fn square_image(img: &mut RgbaImage, align: &Align) -> Option<RgbaImage>
square_image(img, align) ==
    IF img.width >= img.height THEN None
    ELSE IF align = "Top"
    THEN Some(sub_image(img, 0, 0, img.width, img.width))
    ELSE IF align = "Bottom"
    THEN Some(sub_image(img, 0, img.height - img.width, img.width,
                        img.width))
    ELSE Some(sub_image(img, 0, (img.height - img.width) \div 2,
                        img.width, img.width))

\* imageproc's draw_hollow_rect_mut: the outline of the rectangle, where it
\* is inside the image.
draw_hollow_rect_mut(img, r, color) ==
    LET left == r.x
        right == r.x + r.width - 1
        top == r.y
        bottom == r.y + r.height - 1
        on(x, y) == \/ x \in { left, right } /\ top <= y /\ y <= bottom
                    \/ y \in { top, bottom } /\ left <= x /\ x <= right
    IN  [img EXCEPT !.pixels =
           [k \in 1..Len(img.pixels) |->
               IF on((k - 1) % img.width, (k - 1) \div img.width)
               THEN color ELSE img.pixels[k]]]

\* fn draw_thickness_rect: the outlines i = from .. thickness - 1.
RECURSIVE draw_thickness_from(_, _, _, _, _)
draw_thickness_from(img, r, color, thickness, from) ==
    IF from >= thickness THEN img
    ELSE draw_thickness_from(
           draw_hollow_rect_mut(img,
                                Rect(r.x + from, r.y + from,
                                     r.width - from * 2, r.height - from * 2),
                                color),
           r, color, thickness, from + 1)

draw_thickness_rect(img, r, color, thickness) ==
    draw_thickness_from(img, r, color, thickness, 0)

\* A face_image_rect that shrinks the window where it would leave the image.
face_image_rect_shrinks(img, face) ==
    LET offset0 == Min(face.width, Min(img.width - face.width,
                                       img.height - face.height))
        offset == offset0 \div 2
        x == Max(face.x - offset, 0)
        y == Max(face.y - (offset + (face.width * 3) \div 20), 0)
        width == Min(face.width + offset0, Min(img.width - x, img.height - y))
    IN  Rect(x, y, width, width)

\* fn face_image_rect(img: &RgbaImage, face: &Rect) -> Rect
face_image_rect(img, face) ==
    LET offset0 == Min(Min(face.width, img.width - face.width),
                       img.height - face.height)
        width == face.width + offset0
        offset == offset0 \div 2
        up == offset + (face.width * 3) \div 20
        x == IF face.x < offset THEN 0
             ELSE IF face.x - offset + width > img.width
             THEN img.width - width
             ELSE face.x - offset
        y == IF face.y < up THEN 0
             ELSE IF face.y - up + width > img.height
             THEN img.height - width
             ELSE face.y - up
    IN  Rect(x, y, width, width)

\* A selection that takes the last of the widest rectangles.
RECURSIVE select_face_last(_, _, _)
select_face_last(faces, k, sel) ==
    IF k > Len(faces) THEN sel
    ELSE select_face_last(faces, k + 1,
           IF sel = None \/ faces[k].width >= sel.val.width
           THEN Some(faces[k]) ELSE sel)

\* for i in &detect { match select { .. } }, from the k-th rectangle on.
RECURSIVE select_face(_, _, _)
select_face(faces, k, sel) ==
    IF k > Len(faces) THEN sel
    ELSE select_face(faces, k + 1,
           IF sel = None THEN Some(faces[k])
           ELSE IF faces[k].width > sel.val.width THEN Some(faces[k])
           ELSE sel)

(***************************************************************************)
(* image.rs: image_to_png, one call.                                       *)
(***************************************************************************)
MaxFaces == 2       \* rectangles the detector returns at most

\* A decoded picture whose pixel (x, y) is <<x, y, 7, alpha>>: opaque, or
\* with alpha 255, 0, 128 in turn.
CoordImage(width, height, alphas) ==
    Image(width, height,
          [k \in 1..(width * height) |->
              <<(k - 1) % width, (k - 1) \div width, 7,
                IF alphas = "opaque" THEN 255
                ELSE <<255, 0, 128>>[((k - 1) % 3) + 1]>>])

ImageDims == { <<2, 2>>, <<3, 2>>, <<2, 3>>, <<2, 5>>, <<3, 4>>, <<4, 3>> }

\* The files image_to_png is handed: pictures, and bytes that are none.
MaxFileLen == 20    \* bytes of the longest file a request carries

\* Bytes a PNG spends on its signature and chunk headers.
PngOverhead == 2

\* n bytes, each tagged with the file it comes from.
Bytes(n, tag) == [k \in 1..n |-> tag]

\* DynamicImage::write_to(.., Png): the encoded length grows with the
\* picture.
png_encode(img) == Bytes(PngOverhead + img.width * img.height, "png")

\* A cursor that empties the vector before it writes.
Cursor_write_all_truncating(vec, pos, buf) == buf

\* Write for Cursor<&mut Vec<u8>>: the bytes from pos on are overwritten,
\* the vector grows when buf reaches past its end, and is never shortened.
Cursor_write_all(vec, pos, buf) ==
    [k \in 1..Max(Len(vec), pos + Len(buf)) |->
        IF k > pos /\ k <= pos + Len(buf) THEN buf[k - pos] ELSE vec[k]]

\* The files of a request: shorter and longer than the PNG written back.
FileLens == { PngOverhead, MaxFileLen }

Files ==
    { [kind |-> "file", image |-> CoordImage(d[1], d[2], a),
       bytes |-> Bytes(n, "input")] :
        d \in ImageDims, a \in { "opaque", "mixed" }, n \in FileLens }
    \cup { [kind |-> "garbage", image |-> None,
            bytes |-> Bytes(n, "input")] : n \in FileLens }

\* The Opt values image_to_png reads: color, align, show_detect.
Opts ==
    { [color |-> c, align |-> a, show_detect |-> sd] :
        c \in { Trans, Rgb(<<18, 52, 86>>) },
        a \in { None } \cup { Some(x) : x \in Aligns },
        sd \in BOOLEAN }

\* The square rectangles inside a width x height picture.
Faces(width, height) ==
    { r \in { Rect(x, y, n, n) :
                x \in 0..(width - 1), y \in 0..(height - 1),
                n \in 1..Min(width, height) } :
        r.x + r.width <= width /\ r.y + r.height <= height }

\* What the detector may return for a picture: up to MaxFaces rectangles.
FaceLists(width, height) ==
    UNION { [1..n -> Faces(width, height)] : n \in 0..MaxFaces }

InitImage ==
    /\ data \in Files
    /\ opt \in Opts
    /\ rgba = None
    /\ bgra = None
    /\ detect = None
    /\ select = None
    /\ ipc = "load"
    /\ iret = NoRet
    /\ words = <<>>
    /\ threads = <<>>
    /\ VideoIdle
    /\ calls = 0
    /\ CmdIdle

\* let image = load_from_memory(data)?; let mut rgba = image.into_rgba8();
Load ==
    /\ ipc = "load"
    /\ IF data.kind = "garbage"
       THEN /\ iret' = RetErr(OtherError)
            /\ ipc' = "done"
            /\ UNCHANGED rgba
       ELSE /\ rgba' = data.image
            /\ ipc' = IF opt.align # None THEN "align" ELSE "detect"
            /\ UNCHANGED iret
    /\ UNCHANGED <<data, bgra, opt, words, threads, detect, select>>
    /\ UNCHANGED videoVars
    /\ UNCHANGED cmdVars

\* if let Some(align) = &opt.align { if let Some(x) = square_image(..) .. }
AlignCrop ==
    /\ ipc = "align"
    /\ LET x == square_image(rgba, opt.align.val)
       IN  rgba' = IF x # None THEN x.val ELSE rgba
    /\ ipc' = "background"
    /\ UNCHANGED <<data, bgra, opt, words, threads, detect, select, iret>>
    /\ UNCHANGED videoVars
    /\ UNCHANGED cmdVars

\* let detect = detect_animeface(data)?;
Detect ==
    /\ ipc = "detect"
    /\ \/ /\ iret' = RetErr(OtherError)
          /\ ipc' = "done"
          /\ UNCHANGED detect
       \/ /\ \E faces \in FaceLists(rgba.width, rgba.height) :
                detect' = Some(faces)
          /\ ipc' = "select"
          /\ UNCHANGED iret
    /\ UNCHANGED <<data, rgba, bgra, opt, words, threads, select>>
    /\ UNCHANGED videoVars
    /\ UNCHANGED cmdVars

\* The loop over detect, and select.map(|x| face_image_rect(&rgba, x)).
Select ==
    /\ ipc = "select"
    /\ LET sel == select_face(detect.val, 1, None)
       IN  select' = IF sel = None THEN None
                     ELSE Some([face |-> sel.val,
                                rect |-> face_image_rect(rgba, sel.val)])
    /\ ipc' = "show_or_crop"
    /\ UNCHANGED <<data, rgba, bgra, opt, words, threads, detect, iret>>
    /\ UNCHANGED videoVars
    /\ UNCHANGED cmdVars

\* The rectangles of detect drawn in black, from the k-th on.
RECURSIVE draw_detect(_, _, _)
draw_detect(img, faces, k) ==
    IF k > Len(faces) THEN img
    ELSE draw_detect(draw_thickness_rect(img, faces[k], <<0, 0, 0, 255>>,
                                         faces[k].width \div 64),
                     faces, k + 1)

\* if opt.show_detect { draw .. } else if let Some(x) = select { crop }
ShowOrCrop ==
    /\ ipc = "show_or_crop"
    /\ rgba' =
         IF opt.show_detect
         THEN LET drawn == draw_detect(rgba, detect.val, 1)
              IN  IF select # None
                  THEN draw_thickness_rect(drawn, select.val.rect,
                                           <<255, 0, 0, 255>>,
                                           select.val.rect.width \div 128 + 1)
                  ELSE drawn
         ELSE IF select # None
         THEN sub_image(rgba, select.val.rect.x, select.val.rect.y,
                        select.val.rect.width, select.val.rect.height)
         ELSE rgba
    /\ ipc' = "background"
    /\ UNCHANGED <<data, bgra, opt, words, threads, detect, select, iret>>
    /\ UNCHANGED videoVars
    /\ UNCHANGED cmdVars

\* if !opt.show_detect { match opt.color { .. } }
Background ==
    /\ ipc = "background"
    /\ rgba' = apply_color(rgba, opt)
    /\ ipc' = "write"
    /\ UNCHANGED <<data, bgra, opt, words, threads, detect, select, iret>>
    /\ UNCHANGED videoVars
    /\ UNCHANGED cmdVars

\* DynamicImage::ImageRgba8(rgba).write_to(&mut Cursor::new(data), Png)?;
WritePng ==
    /\ ipc = "write"
    /\ \/ /\ data' = [kind |-> "png", image |-> rgba,
                      bytes |-> Cursor_write_all(data.bytes, 0,
                                                 png_encode(rgba))]
          /\ iret' = RetOk
       \/ /\ iret' = RetErr(OtherError)
          /\ UNCHANGED data
    /\ ipc' = "done"
    /\ UNCHANGED <<rgba, bgra, opt, words, threads, detect, select>>
    /\ UNCHANGED videoVars
    /\ UNCHANGED cmdVars

NextImage ==
    \/ Load
    \/ AlignCrop
    \/ Detect
    \/ Select
    \/ ShowOrCrop
    \/ Background
    \/ WritePng

SpecImage == InitImage /\ [][NextImage]_vars

(***************************************************************************)
(* face_image_rect on its own: larger pictures, one rectangle each.        *)
(***************************************************************************)
FaceDims == { <<8, 8>>, <<10, 8>>, <<8, 10>>, <<12, 12>> }

InitFace ==
    /\ data \in { [kind |-> "file", image |-> CoordImage(d[1], d[2], "opaque")] :
                    d \in FaceDims }
    /\ opt = [color |-> Trans, align |-> None, show_detect |-> FALSE]
    /\ rgba = data.image
    /\ bgra = None
    /\ detect \in { Some(<<f>>) : f \in Faces(rgba.width, rgba.height) }
    /\ select = None
    /\ ipc = "select"
    /\ iret = NoRet
    /\ words = <<>>
    /\ threads = <<>>
    /\ VideoIdle
    /\ calls = 0
    /\ CmdIdle

NextFace == Select

SpecFace == InitFace /\ [][NextFace]_vars

(***************************************************************************)
(* Properties of the still-image path.                                     *)
(***************************************************************************)
\* The picture as it was decoded.
Decoded == data.image

\* image_to_png is past its cropping step, before the background.
Cropped == ipc = "background"

\* C17: square_image returns None for every image at least as wide as
\* tall, whatever the alignment, and image_to_png then keeps the image as
\* it is; what a square_image crop produced is such an image, so a second
\* square_image leaves it alone.
C17_SquareImageNoOpOnWide ==
    /\ (ipc = "align" /\ rgba.width >= rgba.height) =>
         \A a \in Aligns : square_image(rgba, a) = None
    /\ (Cropped /\ opt.align # None) =>
         /\ Decoded.width >= Decoded.height => rgba = Decoded
         /\ \A a \in Aligns : square_image(rgba, a) = None

C17_Witness ==
    /\ Cropped
    /\ opt.align = Some("Bottom")
    /\ Decoded.width = 3
    /\ Decoded.height = 2
    /\ rgba = Decoded

\* The first source row of the window the alignment asks for.
WindowTop(align, width, height) ==
    CASE align = "Top" -> 0
      [] align = "Bottom" -> height - width
      [] align = "Center" -> (height - width) \div 2

\* C18: with an explicit alignment and an image of width w and height
\* h > w the result is the w x w square of the source rows from 0 (Top),
\* h - w (Bottom) or floor((h - w) / 2) (Center), inside the source; and
\* with an explicit alignment the face detector is never called.
C18_AlignedSquare ==
    /\ (opt.align # None) =>
         /\ detect = None
         /\ select = None
         /\ ipc \notin { "detect", "select", "show_or_crop" }
    /\ (Cropped /\ opt.align # None /\ Decoded.height > Decoded.width) =>
         LET w == Decoded.width
             h == Decoded.height
             y0 == WindowTop(opt.align.val, w, h)
         IN  /\ rgba.width = w
             /\ rgba.height = w
             /\ Len(rgba.pixels) = w * w
             /\ 0 <= y0
             /\ y0 + w <= h
             /\ \A px \in 0..(w - 1), py \in 0..(w - 1) :
                   PixelAt(rgba, px, py) = PixelAt(Decoded, px, y0 + py)

C18_Witness ==
    /\ Cropped
    /\ opt.align = Some("Center")
    /\ Decoded.width = 2
    /\ Decoded.height = 5
    /\ rgba.width = 2
    /\ rgba.height = 2
    /\ PixelAt(rgba, 0, 0) = PixelAt(Decoded, 0, 1)
    /\ detect = None

\* C19: for a square face inside the image and strictly smaller than it in
\* both dimensions, face_image_rect gives a square of side face.width +
\* min(face.width, img.width - face.width, img.height - face.height) that
\* lies inside the image: the clamp moves the window, never shrinks it.
C19_FaceRectInsideImage ==
    (ipc = "show_or_crop" /\ select # None) =>
      LET f == select.val.face
          r == select.val.rect
      IN  (/\ f.width = f.height
           /\ f.x + f.width <= rgba.width
           /\ f.y + f.height <= rgba.height
           /\ f.width < rgba.width
           /\ f.height < rgba.height) =>
            /\ r.width = r.height
            /\ r.width = f.width + Min(f.width, Min(rgba.width - f.width,
                                                    rgba.height - f.height))
            /\ 0 <= r.x
            /\ 0 <= r.y
            /\ r.x + r.width <= rgba.width
            /\ r.y + r.height <= rgba.height

C19_Witness ==
    /\ ipc = "show_or_crop"
    /\ rgba.width = 12
    /\ rgba.height = 12
    /\ select = Some([face |-> Rect(8, 8, 3, 3), rect |-> Rect(6, 6, 6, 6)])

from_str_radix(x) ==
    CASE x = "123456" -> Some(1193046)
      [] x = "#ffc0cb" -> Some(16761035)
      [] x = "1ffc0cb" -> Some(33538251)
      [] OTHER -> None

\* .unwrap_or(0xffffff).to_be_bytes(), without the first byte
parse_color(x) ==
    LET got == from_str_radix(x)
        v == IF got = None THEN 16777215 ELSE got.val
    IN  Rgb(<<(v \div 65536) % 256, (v \div 256) % 256, v % 256>>)

\* The Opt before any option is read.
DefaultOpt ==
    [color |-> Rgb(<<255, 255, 255>>), align |-> None, dry_run |-> FALSE,
     show_detect |-> FALSE]

\* An option step whose "show" does not turn dry_run on.
opt_step_show_only(o, x) ==
    CASE x \in { "t", "top" } -> [o EXCEPT !.align = Some("Top")]
      [] x \in { "b", "bottom" } -> [o EXCEPT !.align = Some("Bottom")]
      [] x \in { "c", "center" } -> [o EXCEPT !.align = Some("Center")]
      [] x \in { "d", "dry" } -> [o EXCEPT !.dry_run = TRUE]
      [] x \in { "s", "show" } ->
           [o EXCEPT !.align = None, !.show_detect = TRUE]
      [] x \in { "tr", "trans" } -> [o EXCEPT !.color = Trans]
      [] OTHER -> [o EXCEPT !.color = parse_color(x)]

\* One turn of the loop "for x in opt.split_whitespace().take(3)".
opt_step(o, x) ==
    CASE x \in { "t", "top" } -> [o EXCEPT !.align = Some("Top")]
      [] x \in { "b", "bottom" } -> [o EXCEPT !.align = Some("Bottom")]
      [] x \in { "c", "center" } -> [o EXCEPT !.align = Some("Center")]
      [] x \in { "d", "dry" } -> [o EXCEPT !.dry_run = TRUE]
      [] x \in { "s", "show" } ->
           [o EXCEPT !.align = None, !.dry_run = TRUE, !.show_detect = TRUE]
      [] x \in { "tr", "trans" } -> [o EXCEPT !.color = Trans]
      [] OTHER -> [o EXCEPT !.color = parse_color(x)]

\* The loop from the k-th word on.
RECURSIVE opt_scan(_, _, _)
opt_scan(ws, k, o) ==
    IF k > Len(ws) \/ k > 3 THEN o
    ELSE opt_scan(ws, k + 1, opt_step(o, ws[k]))

\* impl From<&str> for Opt
Opt_from(ws) == opt_scan(ws, 1, DefaultOpt)

OptionWords ==
    { "t", "b", "c", "d", "s", "show", "tr", "123456", "1ffc0cb", "zz" }

\* Option strings of up to four words.
OptionStrings == UNION { [1..n -> OptionWords] : n \in 0..4 }

InitParse ==
    /\ words \in OptionStrings
    /\ opt = None
    /\ ipc = "parse"
    /\ data = None
    /\ rgba = None
    /\ bgra = None
    /\ detect = None
    /\ select = None
    /\ iret = NoRet
    /\ threads = <<>>
    /\ VideoIdle
    /\ calls = 0
    /\ CmdIdle

\* bot_command: "/set_avatar" => Some(Command::SetAvatar(opt.trim().into()))
Parse ==
    /\ ipc = "parse"
    /\ opt' = Opt_from(words)
    /\ ipc' = IF data = None THEN "parsed" ELSE "load"
    /\ UNCHANGED <<data, rgba, bgra, detect, select, iret, words, threads>>
    /\ UNCHANGED videoVars
    /\ UNCHANGED cmdVars

NextParse == Parse

SpecParse == InitParse /\ [][NextParse]_vars

(***************************************************************************)
(* A request with the show option: its options are parsed and its picture  *)
(* goes through image_to_png.                                              *)
(***************************************************************************)
\* One or two different words of "s", "t", "tr", "s" among them.
ShowStrings ==
    { ws \in UNION { [1..n -> { "s", "t", "tr" }] : n \in 1..2 } :
        /\ \E i \in 1..Len(ws) : ws[i] = "s"
        /\ \A i \in 1..Len(ws), j \in 1..Len(ws) : ws[i] = ws[j] => i = j }

InitShow ==
    /\ words \in ShowStrings
    /\ opt = None
    /\ ipc = "parse"
    /\ data \in Files
    /\ rgba = None
    /\ bgra = None
    /\ detect = None
    /\ select = None
    /\ iret = NoRet
    /\ threads = <<>>
    /\ VideoIdle
    /\ calls = 0
    /\ CmdIdle

NextShow ==
    \/ Parse
    \/ Load
    \/ AlignCrop
    \/ Detect
    \/ Select
    \/ ShowOrCrop
    \/ Background
    \/ WritePng

SpecShow == InitShow /\ [][NextShow]_vars

\* C21: with the show option set by the option string, image_to_png hands
\* to the encoder the picture in its decoded size, the detector having been
\* called, every pixel either as decoded or part of a drawn outline (black
\* or red): no crop, no background.
C21_ShowDisablesCropAndColor ==
    (ipc = "write" /\ opt.show_detect) =>
      /\ rgba.width = Decoded.width
      /\ rgba.height = Decoded.height
      /\ detect # None
      /\ \A k \in 1..Len(rgba.pixels) :
            rgba.pixels[k] \in { Decoded.pixels[k], <<0, 0, 0, 255>>,
                                 <<255, 0, 0, 255>> }

\* The orderings of the words of an option string.
Orderings(ws) ==
    { [i \in 1..Len(ws) |-> ws[f[i]]] :
        f \in { g \in [1..Len(ws) -> 1..Len(ws)] :
                  \A i \in 1..Len(ws), j \in 1..Len(ws) :
                     g[i] = g[j] => i = j } }

Parsed == ipc = "parsed"

\* C23: for an option string of at most three words every ordering of the
\* words parses to the same Opt, and words after the third are ignored.
C23_OrderInsensitive ==
    Parsed =>
      /\ Len(words) <= 3 => \A ws \in Orderings(words) : Opt_from(ws) = opt
      /\ Len(words) > 3 => opt = Opt_from(SubSeq(words, 1, 3))

\* The words the parser reads: the first three.
ReadWords == { words[i] : i \in 1..Min(3, Len(words)) }

C22_ConversionFailureReplied ==
    \A r \in Requests :
       (req[r].pc = "done" /\ req[r].result.kind = "err") =>
         /\ req[r].result.error = ConversionError =>
              /\ effects[r].logged
              /\ effects[r].error_reply # "none"
         /\ req[r].result.error.kind \in { "rpc", "msg" } =>
              effects[r].error_reply = message(req[r].result.error).val

\* C29: the timestamp of a chat moves by at least MIN_INTERVAL each time
\* it is written, so two successful non-dry-run changes of a chat are at
\* least 30 s apart; a request is rejected with the cooldown error, in its
\* first step and before anything is fetched, exactly when it is not a dry
\* run, finds the lock free and starts less than MIN_INTERVAL after the
\* timestamp; a dry run is never rejected so, and nobody is before some
\* request has changed the chat's avatar.
C29_ChangesThirtySecondsApart ==
    /\ [](\A r \in Requests :
            req[r].result = Cooldown =>
              /\ ~req[r].dry_run
              /\ effects[r] = [NoEffects EXCEPT !.error_reply = "cooldown"]
              /\ \E q \in Requests \ { r } :
                    req[q].chat = req[r].chat /\ effects[q].stamped)
    /\ [][\A c \in CHAT_LIST :
            LAST_UPDATE'[c].instant # LAST_UPDATE[c].instant =>
              LAST_UPDATE'[c].instant - LAST_UPDATE[c].instant
                >= MIN_INTERVAL]_vars
    /\ [][\A r \in Requests :
            (req[r].pc = "new" /\ req'[r].pc # "new") =>
              /\ req'[r].result = Cooldown <=>
                   /\ req'[r].chat \in CHAT_LIST
                   /\ LAST_UPDATE[req'[r].chat].locked_by = "none"
                   /\ ~req'[r].dry_run
                   /\ now - LAST_UPDATE[req'[r].chat].instant < MIN_INTERVAL
              /\ req'[r].result = Cooldown => req'[r].pc = "done"]_vars

C29_Witness ==
    \E r \in Requests, q \in Requests :
       /\ r # q
       /\ req[r].chat = req[q].chat
       /\ effects[r].stamped
       /\ effects[q].stamped
       /\ req[r].started + MIN_INTERVAL <= req[q].started
       /\ LAST_UPDATE[req[q].chat].instant >= MIN_INTERVAL

\* A request in progress goes on: the call it awaits answers, or the timer
\* of timeout(SET_TIMEOUT, ..) ends it.
Progress(r) ==
    \/ GetMessagesDone(r)
    \/ DownloadDone(r)
    \/ LinkDone(r)
    \/ UploadDone(r)
    \/ SendMessageDone(r)
    \/ EditPhotoDone(r)
    \/ Expire(r)

SpecCmdLive == SpecCmd /\ \A r \in Requests : WF_vars(Progress(r))

\* C30: the lock of a chat is held only by a request in progress; the step
\* that ends a request, however it ends, leaves the lock free of it; and a
\* lock that is held becomes free.
C30_LockReleased ==
    /\ [](\A c \in CHAT_LIST, r \in Requests :
            LAST_UPDATE[c].locked_by = r => InProgress(r) /\ req[r].chat = c)
    /\ [][\A r \in Requests :
            (InProgress(r) /\ req'[r].pc = "done") =>
              LAST_UPDATE'[req[r].chat].locked_by = "none"]_vars
    /\ \A c \in CHAT_LIST :
          (LAST_UPDATE[c].locked_by # "none")
             ~> (LAST_UPDATE[c].locked_by = "none")

C30_Witness ==
    \E r \in Requests, q \in Requests :
       /\ req[r].result = TimedOut
       /\ req[q].chat = req[r].chat
       /\ InProgress(q)
       /\ LAST_UPDATE[req[q].chat].locked_by = q

(***************************************************************************)
(* opencv.rs: detect_animeface and its thread-local classifier.  INIT and  *)
(* CLASSIFIER are both declared in thread_local!, so every thread that     *)
(* calls detect_animeface has its own Once and its own CascadeClassifier.  *)
(* set_avatar runs inside tokio::task::spawn on the runtime of             *)
(* #[tokio::main], whose worker threads poll the tasks.                    *)
(***************************************************************************)
MaxDetects == 2     \* calls of detect_animeface a worker thread makes at most

\* The runtime's worker threads.
Workers == { "w1", "w2", "w3" }

\* The thread-local state before the thread's first call: Once::new() and
\* CascadeClassifier::default().  loads, uses, unloaded_uses and entered
\* count what has happened on the thread.
NewThread ==
    [ INIT          |-> "incomplete",
      CLASSIFIER    |-> "default",
      loads         |-> 0,
      uses          |-> 0,
      unloaded_uses |-> 0,
      entered       |-> 0,
      tpc           |-> "idle" ]

\* A call_once that runs its closure on every call.
call_once_always(th) ==
    [ th EXCEPT !.INIT = "complete",
                !.CLASSIFIER = "model",
                !.loads = @ + 1 ]

\* INIT.with(|x| x.call_once(|| CLASSIFIER.with_borrow_mut(|x| x.read(..))))
call_once(th) ==
    IF th.INIT = "incomplete"
    THEN [ th EXCEPT !.INIT = "complete",
                     !.CLASSIFIER = "model",
                     !.loads = @ + 1 ]
    ELSE th

InitDetect ==
    /\ threads = [ t \in Workers |-> NewThread ]
    /\ data = None
    /\ rgba = None
    /\ bgra = None
    /\ opt = None
    /\ detect = None
    /\ select = None
    /\ ipc = "idle"
    /\ iret = NoRet
    /\ words = <<>>
    /\ VideoIdle
    /\ calls = 0
    /\ CmdIdle

\* A task polled by worker t calls detect_animeface.
Enter(t) ==
    /\ threads[t].tpc = "idle"
    /\ threads[t].entered < MaxDetects
    /\ threads' = [ threads EXCEPT ![t].tpc = "init", ![t].entered = @ + 1 ]
    /\ UNCHANGED <<data, rgba, bgra, opt, detect, select, ipc, iret, words>>
    /\ UNCHANGED videoVars
    /\ UNCHANGED cmdVars

\* INIT.with(..): the model is read on the thread's first call.
CallOnce(t) ==
    /\ threads[t].tpc = "init"
    /\ threads' = [ threads EXCEPT ![t] = [ call_once(@) EXCEPT !.tpc = "detect" ] ]
    /\ UNCHANGED <<data, rgba, bgra, opt, detect, select, ipc, iret, words>>
    /\ UNCHANGED videoVars
    /\ UNCHANGED cmdVars

\* CLASSIFIER.with_borrow_mut(|x| x.detect_multi_scale(&imdecode(..)?, ..))?
\* imdecode may fail before the classifier is used.
DetectMultiScale(t) ==
    /\ threads[t].tpc = "detect"
    /\ \/ threads' = [ threads EXCEPT ![t].tpc = "idle" ]
       \/ threads' = [ threads EXCEPT
                         ![t].tpc = "idle",
                         ![t].uses = @ + 1,
                         ![t].unloaded_uses =
                             IF threads[t].CLASSIFIER = "model" THEN @ ELSE @ + 1 ]
    /\ UNCHANGED <<data, rgba, bgra, opt, detect, select, ipc, iret, words>>
    /\ UNCHANGED videoVars
    /\ UNCHANGED cmdVars

NextDetect ==
    \E t \in Workers :
       \/ Enter(t)
       \/ CallOnce(t)
       \/ DetectMultiScale(t)

SpecDetect == InitDetect /\ [][NextDetect]_vars

RECURSIVE SumOver(_, _)
SumOver(S, field) ==
    IF S = {} THEN 0
    ELSE LET t == CHOOSE x \in S : TRUE
         IN  threads[t][field] + SumOver(S \ { t }, field)

MaxPackets == 3     \* packets of the input file at most

\* usize index of the selected video stream, and of another stream
VideoStream == 0
OtherStream == 1

Packet(i, p) == [stream_index |-> i, pts |-> p]

DemuxTimeBase == [num |-> 1, den |-> 90000]

\* Packets of a file: video packets at 0 s, 1 s and past the 10 s mark,
\* packets of another stream.
PacketKinds ==
    { Packet(VideoStream, p) : p \in { P(0, 0), P(0, 90000), P(0, 900001) } }
    \cup { Packet(OtherStream, P(0, 0)) }

RECURSIVE SeqsUpTo(_, _)
SeqsUpTo(S, n) ==
    IF n = 0 THEN { <<>> }
    ELSE LET shorter == SeqsUpTo(S, n - 1)
         IN  shorter \cup { Append(q, x) : q \in shorter, x \in S }

DemuxInputs ==
    { [kind |-> "file", packets |-> ps, pos |-> 0, held |-> <<>>,
       draining |-> FALSE, dim |-> d] :
        ps \in SeqsUpTo(PacketKinds, MaxPackets),
        d \in { <<480, 480>>, <<640, 480>> } }

\* The guard of the inner loop with no packet passed over.
other_stream_never(self, x) == FALSE

\* Some(x) if x.stream_index != self.stream_index as i32 => {}
other_stream(self, x) == x.stream_index # self.stream_index

InCall == pc \in { "read", "send", "recv" }

InitDemux ==
    /\ input \in DemuxInputs
    /\ pc = "idle"
    /\ src = decode_video(DemuxTimeBase)
               @@ [stream_index |-> VideoStream, packet |-> None]
    /\ ret = NoRet
    /\ enc = None
    /\ outbuf = <<>>
    /\ result = NoResult
    /\ failure = "none"
    /\ events = <<>>
    /\ calls = 0
    /\ CmdIdle
    /\ ImgIdle

\* The caller calls next_frame; after an error it drops the source.
NextFrameCall ==
    /\ pc = "idle"
    /\ calls < MaxCalls
    /\ ret.tag # "err"
    /\ pc' = "read"
    /\ calls' = calls + 1
    /\ UNCHANGED <<input, src, ret, enc, outbuf, result, failure, events>>
    /\ UNCHANGED cmdVars
    /\ UNCHANGED imgVars

\* self.format_context.read_packet()?: the next packet of the file, None
\* at its end, or a read error.
ReadPacket ==
    /\ pc = "read"
    /\ \/ /\ input.pos < Len(input.packets)
          /\ ret' = Err("read_packet")
          /\ pc' = "idle"
          /\ UNCHANGED <<input, src>>
       \/ /\ input.pos < Len(input.packets)
          /\ LET x == input.packets[input.pos + 1]
             IN  /\ input' = [input EXCEPT !.pos = @ + 1]
                 /\ IF other_stream(src, x)
                    THEN UNCHANGED <<pc, src>>
                    ELSE /\ src' = [src EXCEPT
                                      !.packet =
                                          Some([stream_index |-> x.stream_index,
                                                pts |-> x.pts,
                                                index |-> input.pos + 1])]
                         /\ pc' = "send"
          /\ UNCHANGED ret
       \/ /\ input.pos >= Len(input.packets)
          /\ src' = [src EXCEPT !.packet = None]
          /\ pc' = "send"
          /\ UNCHANGED <<input, ret>>
    /\ UNCHANGED <<enc, outbuf, result, failure, events, calls>>
    /\ UNCHANGED cmdVars
    /\ UNCHANGED imgVars

\* self.decode_context.send_packet(packet.as_ref()): Ok and
\* DecoderFlushedError go on to receive_frame, any other error returns.
\* A packet is decoded into one frame the decoder holds; None starts the
\* draining; a draining decoder answers DecoderFlushedError.
SendPacket ==
    /\ pc = "send"
    /\ \/ /\ input.draining
          /\ pc' = "recv"
          /\ UNCHANGED <<input, ret, events>>
       \/ /\ ~input.draining
          /\ src.packet = None
          /\ input' = [input EXCEPT !.draining = TRUE]
          /\ events' = Append(events, Event("flush", 0))
          /\ pc' = "recv"
          /\ UNCHANGED ret
       \/ /\ ~input.draining
          /\ src.packet # None
          /\ LET n == src.packet.val.index
             IN  /\ input' = [input EXCEPT !.held =
                                Append(@, Frame(n, src.packet.val.pts,
                                                input.dim[1], input.dim[2],
                                                "YUV420P"))]
                 /\ events' = Append(events, Event("send", n))
          /\ pc' = "recv"
          /\ UNCHANGED ret
       \/ /\ ~input.draining
          /\ src.packet # None
          /\ ret' = Err("send_packet")
          /\ pc' = "idle"
          /\ UNCHANGED <<input, events>>
    /\ UNCHANGED <<src, enc, outbuf, result, failure, calls>>
    /\ UNCHANGED cmdVars
    /\ UNCHANGED imgVars

\* What receive_frame answers: the oldest frame the decoder holds, a
\* failure to decode it, DecoderDrainError while the decoder waits for more
\* input, DecoderFlushedError when a draining decoder has nothing left.
ReceiveAnswers ==
    IF input.held # <<>>
    THEN { [tag |-> "frame", val |-> Head(input.held)], [tag |-> "recv_err"] }
         \cup (IF input.draining THEN {} ELSE { [tag |-> "drain"] })
    ELSE IF input.draining THEN { [tag |-> "flushed"] }
    ELSE { [tag |-> "drain"] }

\* self.decode_context.receive_frame() and the rest of the loop body.
ReceiveFrame ==
    /\ pc = "recv"
    /\ \E out \in ReceiveAnswers, f \in VideoFails :
         LET r == AVFrameIter_next_frame(src, out, f)
         IN  /\ src' = r.self
             /\ input' = IF out.tag = "frame"
                         THEN [input EXCEPT !.held = Tail(@)]
                         ELSE input
             /\ IF r.ret = Again
                THEN /\ pc' = "read"
                     /\ UNCHANGED <<ret, events>>
                ELSE /\ pc' = "idle"
                     /\ ret' = r.ret
                     /\ events' =
                          IF r.ret = Yield
                          THEN Append(events,
                                      Event("pull", r.self.frame_buffer.id))
                          ELSE events
    /\ UNCHANGED <<enc, outbuf, result, failure, calls>>
    /\ UNCHANGED cmdVars
    /\ UNCHANGED imgVars

NextDemux ==
    \/ NextFrameCall
    \/ ReadPacket
    \/ SendPacket
    \/ ReceiveFrame

\* The thread that called next_frame keeps running it.
SpecDemux == InitDemux /\ [][NextDemux]_vars /\ WF_vars(NextDemux)

\* C27: a call of next_frame returns; only packets of the selected stream
\* are sent to the decoder; at the end of the input the decoder is sent the
\* flush packet, each call then returns one of the frames it still holds,
\* and with none left the call returns None.
C27_NextFrameTerminates ==
    /\ InCall ~> (pc = "idle" /\ ret # NoRet)
    /\ [](\A i \in 1..Len(events) :
            events[i].op = "send" =>
              input.packets[events[i].id].stream_index = VideoStream)
    /\ [][(pc = "send" /\ src.packet = None) =>
             (pc' = "recv" /\ input'.draining)]_vars
    /\ [][(pc = "recv" /\ input.draining /\ input.held # <<>>
             /\ pc' = "idle" /\ ret' = Yield) =>
             /\ input'.held = Tail(input.held)
             /\ src'.frame_buffer.id = Head(input.held).id]_vars
    /\ [][(pc = "recv" /\ input.draining /\ input.held = <<>>) =>
             (pc' = "idle" /\ ret' = Exhausted)]_vars

C27_Witness ==
    /\ pc = "idle"
    /\ ret = Exhausted
    /\ input.draining
    /\ input.held = <<>>
    /\ \E i \in 1..Len(input.packets) :
          input.packets[i].stream_index = OtherStream
    /\ \E i \in 1..Len(events), j \in 1..Len(events) :
          /\ i < j
          /\ events[i].op = "flush"
          /\ events[j].op = "pull"

\* C24: encode_mp4 returns bytes only as the sole holder of the output
\* buffer, and fails with "Failed to get encoding output" when it is not;
\* once the trailer is written the muxer and its two callbacks are gone
\* before the reclaim, so that failure never happens.
C24_SoleOwnerAtReclaim ==
    /\ [](result.kind = "ok" => (enc # None /\ enc.refs = 1))
    /\ [](pc = "reclaim" =>
            /\ enc.refs = 1
            /\ outbuf[Len(outbuf)] = "trailer")
    /\ [](pc \in { "header", "encode", "drain", "pull", "flush", "trailer" }
            => enc.refs = 3)
    /\ [](failure # "Failed to get encoding output")
    /\ [][(pc = "reclaim" /\ enc.refs # 1) =>
            (result'.kind = "err"
               /\ failure' = "Failed to get encoding output")]_vars

C24_Witness ==
    /\ pc = "done"
    /\ result.kind = "ok"
    /\ enc # None
    /\ enc.refs = 1
    /\ Len(result.buf) >= 3
    /\ result.buf[Len(result.buf)] = "trailer"

\* C26: in encode_write_frame a packet whose write fails with -22 is
\* dropped and the loop goes on to the next packet without failing; a
\* write that fails with another code ends the call with that error, and
\* so does a receive_packet error that is neither "drained" nor "flushed".
C26_InvalidTimestampTolerated ==
    /\ [][(pc = "drain" /\ enc'.pending = enc.pending - 1) =>
            /\ enc'.last_write = 0 =>
                 /\ outbuf' = Append(outbuf, "packet")
                 /\ pc' = "drain"
                 /\ UNCHANGED <<failure, result>>
            /\ enc'.last_write = -22 =>
                 /\ outbuf' = outbuf
                 /\ pc' = "drain"
                 /\ UNCHANGED <<failure, result>>
            /\ enc'.last_write \notin { 0, -22 } =>
                 /\ pc' = "done"
                 /\ result'.kind = "err"
                 /\ failure' = "interleaved_write_frame"]_vars
    /\ [][(pc = "drain" /\ enc' = enc) =>
            \/ pc' = (IF enc.flushing THEN "trailer" ELSE "pull")
                 /\ UNCHANGED <<failure, result>>
            \/ pc' = "done" /\ result'.kind = "err"
                 /\ failure' = "receive_packet"
            \/ UNCHANGED vars]_vars
    /\ [](failure = "interleaved_write_frame" =>
            (enc.last_write \notin { 0, -22 }))

C26_Witness ==
    /\ result.kind = "ok"
    /\ enc # None
    /\ enc.last_write = -22
    /\ \E i \in 1..Len(result.buf) : result.buf[i] = "packet"

\* C31: after image_to_png has succeeded the caller's buffer is the encoded
\* PNG and nothing else, whatever the length of the input was.
C31_BufferIsExactlyPng ==
    (ipc = "done" /\ iret = RetOk) =>
       /\ Len(data.bytes) = Len(png_encode(rgba))
       /\ \A k \in 1..Len(data.bytes) : data.bytes[k] = "png"

(***************************************************************************)
(* io_context_custom: the seek and read_packet closures over the shared    *)
(* Cursor<Vec<u8>>.  A u64 v is held as hi * 2^64 + lo, with hi = 1 and    *)
(* lo < 0 for the values a negative i64 is cast to, so that `as u64` and   *)
(* `as i64` are exact.  input is the cursor, ret what the last callback    *)
(* returned.                                                               *)
(***************************************************************************)
MaxLen == 3         \* bytes of the in-memory file at most

AVSEEK_SIZE == 65536

\* offset as u64
AsU64(v) == IF v >= 0 THEN [hi |-> 0, lo |-> v] ELSE [hi |-> 1, lo |-> v]

\* x as i64
AsI64(u) == u.lo

IoOk(v) == [tag |-> "ok", val |-> v]
IoErr == [tag |-> "err"]

\* u64::checked_add_signed, then Ok(new position) or the error "invalid
\* seek to a negative or overflowing position"
checked_add_signed(base, offset) ==
    LET sum == base.lo + offset
    IN  IF base.hi = 0
        THEN IF sum >= 0 THEN IoOk([hi |-> 0, lo |-> sum]) ELSE IoErr
        ELSE IF sum < 0 THEN IoOk([hi |-> 1, lo |-> sum]) ELSE IoErr

\* Cursor::seek: the position after the call and its result.
Cursor_seek(cur, from, n) ==
    LET r == CASE from = "Start" -> IoOk(n)
               [] from = "Current" -> checked_add_signed(cur.pos, n)
               [] from = "End" -> checked_add_signed(AsU64(cur.len), n)
    IN  [cur |-> IF r.tag = "ok" THEN [cur EXCEPT !.pos = r.val] ELSE cur,
         res |-> r]

\* .map(|x| x as _).unwrap_or(-1)
map_or_minus_one(r) == IF r.tag = "ok" THEN AsI64(r.val) ELSE -1

\* The seek closure of io_context_custom.
seek(cur, offset, whence) ==
    CASE whence = 0 ->
           LET s == Cursor_seek(cur, "Start", AsU64(offset))
           IN  [cur |-> s.cur, val |-> map_or_minus_one(s.res)]
      [] whence = 1 ->
           LET s == Cursor_seek(cur, "Current", offset)
           IN  [cur |-> s.cur, val |-> map_or_minus_one(s.res)]
      [] whence = 2 ->
           LET s == Cursor_seek(cur, "End", offset)
           IN  [cur |-> s.cur, val |-> map_or_minus_one(s.res)]
      [] whence = AVSEEK_SIZE -> [cur |-> cur, val |-> cur.len]
      [] OTHER -> [cur |-> cur, val |-> -1]

\* whence values the library passes, and one it does not know
Whences == { 0, 1, 2, AVSEEK_SIZE, 3 }

Offsets == (-2)..2

InitSeek ==
    /\ input \in { [kind |-> "cursor", len |-> n, pos |-> AsU64(0)] :
                     n \in 0..MaxLen }
    /\ pc = "io"
    /\ src = None
    /\ ret = NoRet
    /\ enc = None
    /\ outbuf = <<>>
    /\ result = NoResult
    /\ failure = "none"
    /\ events = <<>>
    /\ calls = 0
    /\ CmdIdle
    /\ ImgIdle

\* The library calls the seek callback.
SeekCall ==
    /\ pc = "io"
    /\ calls < MaxCalls
    /\ \E offset \in Offsets, whence \in Whences :
         LET s == seek(input, offset, whence)
         IN  /\ input' = s.cur
             /\ ret' = [tag |-> "io", op |-> "seek", offset |-> offset, whence |-> whence,
                        val |-> s.val]
    /\ calls' = calls + 1
    /\ UNCHANGED <<pc, src, enc, outbuf, result, failure, events>>
    /\ UNCHANGED cmdVars
    /\ UNCHANGED imgVars

\* The read_packet closure: data.read(buf) for a buffer of n bytes.  A
\* cursor at or past the end reads nothing, which is AVERROR_EOF.
ReadCall ==
    /\ pc = "io"
    /\ calls < MaxCalls
    /\ \E n \in 1..2 :
         LET left == IF input.pos.hi = 0 /\ input.pos.lo < input.len
                     THEN input.len - input.pos.lo ELSE 0
             got == Min(n, left)
         IN  /\ input' = [input EXCEPT !.pos.lo = @ + got]
             /\ ret' = [tag |-> "io", op |-> "read", offset |-> 0, whence |-> 0,
                        val |-> IF got = 0 THEN -541478725 ELSE got]
    /\ calls' = calls + 1
    /\ UNCHANGED <<pc, src, enc, outbuf, result, failure, events>>
    /\ UNCHANGED cmdVars
    /\ UNCHANGED imgVars

NextSeek ==
    \/ SeekCall
    \/ ReadCall

SpecSeek == InitSeek /\ [][NextSeek]_vars

\* C32: a seek that returns a negative value leaves the cursor where it
\* was, and a size query returns the length without moving it.
C32_FailedSeekKeepsPosition ==
    [][(calls' = calls + 1 /\ ret'.tag = "io" /\ ret'.op = "seek") =>
         /\ ret'.val < 0 => input'.pos = input.pos
         /\ ret'.whence = AVSEEK_SIZE =>
              (ret'.val = input.len /\ input'.pos = input.pos)]_vars

(***************************************************************************)
(* main.rs: the handler `answer` that commands_repl runs for each command, *)
(* several at a time.  LAST_UPDATE is a Mutex<HashMap<i64, Instant>>,      *)
(* locked for the length of one expression; req[r].pc is the await the     *)
(* handler of request r is at.                                             *)
(***************************************************************************)
AnswerRequest(chat) == [pc |-> "new", chat |-> chat]

AnswerEffects == [set_chat_photo |-> None, reply |-> "none"]

InitAnswer ==
    /\ req \in [Requests -> { AnswerRequest(c) : c \in Chats }]
    /\ LAST_UPDATE = [c \in Chats |-> None]
    /\ now = 0
    /\ effects = [r \in Requests |-> AnswerEffects]
    /\ VideoIdle
    /\ calls = 0
    /\ ImgIdle

\* LAST_UPDATE.lock().unwrap().get(&chat_id)
\*     .map_or(false, |x| x.elapsed() < MIN_INTERVAL)
answer_in_cooldown(last_update, chat_id, t) ==
    IF last_update[chat_id] = None THEN FALSE
    ELSE t - last_update[chat_id].val < MIN_INTERVAL

\* Command::SetAvatar up to the first await: the chat list, the cooldown
\* test, the file_id of the replied-to message.
AnswerStart(r) ==
    /\ req[r].pc = "new"
    /\ \E file_id \in { "none", "some", "no reply" } :
         req' = [req EXCEPT ![r].pc =
                   IF req[r].chat \notin CHAT_LIST THEN "done"
                   ELSE IF answer_in_cooldown(LAST_UPDATE, req[r].chat, now)
                   THEN "reply_cooldown"
                   ELSE CASE file_id = "no reply" -> "done"
                          [] file_id = "none" -> "reply_unsupported"
                          [] file_id = "some" -> "get_file"]
    /\ UNCHANGED <<LAST_UPDATE, now, effects>>
    /\ UNCHANGED videoVars
    /\ UNCHANGED imgVars

\* cx.reply_to(..).await?
AnswerReplyDone(r) ==
    /\ req[r].pc \in { "reply_cooldown", "reply_unsupported" }
    /\ \E ok \in BOOLEAN :
         effects' = [effects EXCEPT ![r].reply =
                       IF ~ok THEN @
                       ELSE IF req[r].pc = "reply_cooldown" THEN "cooldown"
                       ELSE "unsupported"]
    /\ req' = [req EXCEPT ![r].pc = "done"]
    /\ UNCHANGED <<LAST_UPDATE, now>>
    /\ UNCHANGED videoVars
    /\ UNCHANGED imgVars

\* get_file(&file_id).await?
AnswerGetFileDone(r) ==
    /\ req[r].pc = "get_file"
    /\ \E ok \in BOOLEAN :
         req' = [req EXCEPT ![r].pc = IF ok THEN "download_file" ELSE "done"]
    /\ UNCHANGED <<LAST_UPDATE, now, effects>>
    /\ UNCHANGED videoVars
    /\ UNCHANGED imgVars

\* download_file(..).await?, then webp_to_jpg(..)? for a .webp file
AnswerDownloadDone(r) ==
    /\ req[r].pc = "download_file"
    /\ \E ok \in BOOLEAN :
         req' = [req EXCEPT ![r].pc = IF ok THEN "set_chat_photo" ELSE "done"]
    /\ UNCHANGED <<LAST_UPDATE, now, effects>>
    /\ UNCHANGED videoVars
    /\ UNCHANGED imgVars

\* set_chat_photo(..).await?; LAST_UPDATE.lock().unwrap().insert(chat_id,
\* Instant::now())
AnswerSetChatPhotoDone(r) ==
    /\ req[r].pc = "set_chat_photo"
    /\ \E ok \in BOOLEAN :
         IF ok
         THEN /\ effects' = [effects EXCEPT ![r].set_chat_photo = Some(now)]
              /\ LAST_UPDATE' = [LAST_UPDATE EXCEPT ![req[r].chat] = Some(now)]
         ELSE UNCHANGED <<effects, LAST_UPDATE>>
    /\ req' = [req EXCEPT ![r].pc = "done"]
    /\ UNCHANGED now
    /\ UNCHANGED videoVars
    /\ UNCHANGED imgVars

NextAnswer ==
    \/ \E r \in Requests :
          \/ AnswerStart(r)
          \/ AnswerReplyDone(r)
          \/ AnswerGetFileDone(r)
          \/ AnswerDownloadDone(r)
          \/ AnswerSetChatPhotoDone(r)
    \/ Tick

SpecAnswer == InitAnswer /\ [][NextAnswer]_vars

\* C33: in answer the cooldown test and the timestamp update are atomic:
\* two requests of the same chat never both set the chat photo less than
\* MIN_INTERVAL apart.
C33_CooldownAtomic ==
    \A r \in Requests, q \in Requests :
       (/\ r # q
        /\ req[r].chat = req[q].chat
        /\ effects[r].set_chat_photo # None
        /\ effects[q].set_chat_photo # None
        /\ effects[r].set_chat_photo.val >= effects[q].set_chat_photo.val)
       => effects[r].set_chat_photo.val - effects[q].set_chat_photo.val
            >= MIN_INTERVAL

\* C34: a buffer is uploaded as file.mp4, and set with is_video, only when
\* it is flagged square: it came out of video_to_mp4, out of tgs_to_mp4 for
\* a square sticker, or is a square video/mp4 passed through; every other
\* buffer went through image_to_png once and is uploaded as file.png.
C34_VideoOnlyIfSquare ==
    /\ [](\A r \in Requests :
            /\ effects[r].image_to_png <= 1
            /\ effects[r].uploaded =>
                 /\ effects[r].file_name =
                      (IF req[r].is_video THEN "file.mp4" ELSE "file.png")
                 /\ effects[r].file_name = "file.mp4" =>
                      effects[r].image_to_png = 0
                 /\ effects[r].file_name = "file.png" =>
                      effects[r].image_to_png = 1
            /\ (effects[r].uploaded /\ req[r].pc # "done"
                  /\ effects[r].file_name = "file.mp4") => req[r].is_square)
    /\ [][\A r \in Requests :
            (req[r].pc = "download" /\ req'[r].pc = "upload") =>
              (effects'[r].file_name = "file.mp4" <=>
                 \/ (req[r].mime \in { "video/mp4", "video/webm" }
                      /\ (~req[r].is_square \/ req[r].mime # "video/mp4"))
                 \/ (req[r].mime = "application/x-tgsticker"
                      /\ req[r].is_square)
                 \/ (req[r].mime = "video/mp4" /\ req[r].is_square))]_vars
    /\ [][\A r \in Requests :
            (req[r].pc = "link" /\ req'[r].pc = "upload") =>
              effects'[r].file_name = "file.png"]_vars

C34_Witness ==
    \E r \in Requests, q \in Requests :
       /\ effects[r].file_name = "file.mp4"
       /\ effects[r].edit_photo
       /\ req[r].is_video
       /\ effects[q].file_name = "file.png"
       /\ effects[q].image_to_png = 1

\* C35: the ceiling test of next_frame decides as the comparison
\* pts * num > 10 * den does in unbounded integers, for every timestamp the
\* decoder reports.
C35_CeilingTestExact ==
    (IsVideo /\ src.decoded > 0) =>
       (TimeCheck(src.received.pts, src.time_base)
          <=> PresentationBeyond(src.received.pts, src.time_base))

(***************************************************************************)
(* trans_flag on its own, for every width and height from 0 on and for a   *)
(* slice whose length is, or is not, width * height * 4.                   *)
(***************************************************************************)
RetPanic == [kind |-> "panic"]

\* Slices handed to trans_flag: the pixels of a width x height picture,
\* and the same with one pixel more.
BandImages ==
    { Image(w, h, Pattern(w, h, o, 1) \o extra) :
        w \in 0..MaxWidth, h \in 0..MaxHeight,
        o \in 0..(Len(PixelSamples) - 1),
        extra \in { <<>>, << <<0, 0, 0, 0>> >> } }

InitBand ==
    /\ data \in { [kind |-> "pixels", image |-> i] : i \in BandImages }
    /\ rgba = data.image
    /\ bgra = None
    /\ opt \in { [color |-> Trans, align |-> None, show_detect |-> FALSE] }
    /\ detect = None
    /\ select = None
    /\ ipc = "color"
    /\ iret = NoRet
    /\ words = <<>>
    /\ threads = <<>>
    /\ VideoIdle
    /\ calls = 0
    /\ CmdIdle

\* trans_flag(data, width, height, rgb): assert_eq!(data.len(), width *
\* height * 4), then the table and the scan.
TransFlagCall ==
    /\ ipc = "color"
    /\ IF Len(rgba.pixels) # rgba.width * rgba.height
       THEN /\ iret' = RetPanic
            /\ UNCHANGED rgba
       ELSE /\ \E rgb \in BOOLEAN :
                 rgba' = [rgba EXCEPT !.pixels =
                            trans_flag(rgba.pixels, rgba.width, rgba.height,
                                       rgb)]
            /\ iret' = RetOk
    /\ ipc' = "done"
    /\ UNCHANGED <<data, bgra, opt, words, threads, detect, select>>
    /\ UNCHANGED videoVars
    /\ UNCHANGED cmdVars

NextBand == TransFlagCall

SpecBand == InitBand /\ [][NextBand]_vars

\* C36: for every width and height the table is 0 = s0 <= s1 <= .. <= s5 =
\* height, the band index of the scan stays in 0..4 and never decreases,
\* and the call fails only on the length assertion.
C36_BandTableInRange ==
    LET split == split_index(rgba.height)
        ci == color_indexes(rgba.width, rgba.height)
    IN  /\ DOMAIN split = 0..5
        /\ split[0] = 0
        /\ split[5] = rgba.height
        /\ \A i \in 0..4 : split[i] <= split[i + 1]
        /\ Len(ci) = rgba.width * rgba.height
        /\ \A k \in 1..Len(ci) : ci[k] \in 0..4
        /\ \A k \in 1..(Len(ci) - 1) : ci[k] <= ci[k + 1]
        /\ ipc = "done" =>
             /\ iret = RetPanic <=>
                  Len(data.image.pixels) # rgba.width * rgba.height
             /\ iret # RetPanic =>
                  /\ iret = RetOk
                  /\ Len(rgba.pixels) = Len(data.image.pixels)

C36_Witness ==
    /\ ipc = "done"
    /\ iret = RetOk
    /\ rgba.height \in 1..4
    /\ rgba.width = MaxWidth
    /\ rgba.pixels # data.image.pixels

\* C37: next_frame never yields a frame with the pts of the frame it
\* yielded before: a decoded frame with that pts is passed over and the
\* loop reads on, with or without a scaler; the first decoded frame is not
\* passed over when its pts is not negative.
C37_NoRepeatedTimestamp ==
    /\ [][(pc = "recv" /\ pc' = "idle" /\ ret' = Yield) =>
            /\ src'.frame_buffer.pts # src.frame_buffer.pts
            /\ src'.frame_buffer.pts = src'.received.pts]_vars
    /\ [][(/\ pc = "recv"
           /\ src'.decoded = src.decoded + 1
           /\ src'.received.pts = src.frame_buffer.pts
           /\ ~TimeCheck(src'.received.pts, src.time_base)) =>
            /\ pc' = "read"
            /\ src'.frame_buffer = src.frame_buffer
            /\ UNCHANGED <<ret, events>>]_vars
    /\ [][(/\ pc = "recv"
           /\ src.decoded = 0
           /\ src'.decoded = 1
           /\ src'.received.pts.hi = 0
           /\ src'.received.pts.lo >= 0) => pc' # "read"]_vars

C37_Witness ==
    /\ pc = "read"
    /\ src.sws_context # None
    /\ src.decoded >= 2
    /\ src.received.pts = src.frame_buffer.pts
    /\ src.received.id # src.frame_buffer.id
    /\ \E i \in 1..Len(events) :
          events[i] = Event("pull", src.frame_buffer.id)

====
